---------------------------- MODULE Spec2Model ----------------------------
(***************************************************************************)
(* Write path of the log: WritableFileWriter (file/writable_file_writer.cc)*)
(* and log::Writer (db/log_writer.cc).                                     *)
(*                                                                         *)
(* Bytes are symbolic.  A byte stream is a sequence of runs; a run         *)
(* [k, id, off, n] stands for the n bytes id[off], ..., id[off+n-1] of the  *)
(* object `id` of kind k:                                                  *)
(*   "Z"  zero bytes (alignment padding, block trailer), id = <<>>         *)
(*   "D"  caller data: id = <<object number>>                              *)
(*   "P"  zero bytes written by Pad: id = <<operation number>>             *)
(*   "H"  record header: id = <<type, length, log number, object, offset>> *)
(*   "U"  uninitialised buffer memory, id = <<>>                           *)
(* Streams are kept normalised (no empty run, adjacent runs merged), so    *)
(* equality of streams is equality of byte sequences.  This lets the model *)
(* keep the sizes of the code (32 KiB blocks, 4 KiB pages, 1 MiB reserve). *)
(***************************************************************************)
EXTENDS Integers, Sequences, FiniteSets, TLC

VARIABLES
  cfg,     \* options fixed at construction (file options, sink properties, log options)
  fw,      \* WritableFileWriter fields
  sink,    \* the FSWritableFile: bytes accepted, durable length, closed
  calls,   \* sink calls made by the last public operation, in order
  hist,    \* the operations so far: their number, the last one, what they were
  passed,  \* every byte passed to Append/Pad, in call order
  lw,      \* log::Writer fields and what the last AddRecord emitted
  recs,    \* lengths of the records passed to AddRecord
  task     \* an Append in progress on another thread, step by step (or idle)

vars == <<cfg, fw, sink, calls, hist, passed, lw, recs, task>>

Min(a, b) == IF a < b THEN a ELSE b
Max(a, b) == IF a > b THEN a ELSE b

-----------------------------------------------------------------------------
(* Byte streams *)

Run(k, id, off, n) == [k |-> k, id |-> id, off |-> off, n |-> n]
Zeros(n) == IF n = 0 THEN <<>> ELSE <<Run("Z", <<>>, 0, n)>>
Uninit(n) == IF n = 0 THEN <<>> ELSE <<Run("U", <<>>, 0, n)>>
Data(obj, n) == IF n = 0 THEN <<>> ELSE <<Run("D", <<obj>>, 0, n)>>

Positional(r) == r.k \notin {"Z", "U"}

RECURSIVE SLen(_)
SLen(s) == IF s = <<>> THEN 0 ELSE Head(s).n + SLen(Tail(s))

Mergeable(r, q) ==
  /\ r.k = q.k
  /\ r.id = q.id
  /\ (Positional(r) => r.off + r.n = q.off)

\* concatenation of two normalised streams
Cat(s, t) ==
  IF s = <<>> THEN t
  ELSE IF t = <<>> THEN s
  ELSE LET r == s[Len(s)]
           q == Head(t)
       IN IF Mergeable(r, q)
          THEN SubSeq(s, 1, Len(s) - 1) \o <<[r EXCEPT !.n = r.n + q.n]>> \o Tail(t)
          ELSE s \o t

\* the first n bytes of s (all of s when it is shorter)
RECURSIVE Take(_, _)
Take(s, n) ==
  IF n <= 0 \/ s = <<>> THEN <<>>
  ELSE LET r == Head(s)
       IN IF r.n <= n THEN <<r>> \o Take(Tail(s), n - r.n)
          ELSE <<[r EXCEPT !.n = n]>>

\* s without its first n bytes
RECURSIVE Drop(_, _)
Drop(s, n) ==
  IF n <= 0 \/ s = <<>> THEN s
  ELSE LET r == Head(s)
       IN IF r.n <= n THEN Drop(Tail(s), n - r.n)
          ELSE <<[r EXCEPT !.n = r.n - n,
                           !.off = IF Positional(r) THEN r.off + n ELSE 0]>> \o Tail(s)

Slice(s, pos, n) == Take(Drop(s, pos), n)

\* s with the bytes at [pos, pos + |d|) replaced by d; s is extended when it is shorter
Overwrite(s, pos, d) ==
  Cat(Cat(Cat(Take(s, pos), Zeros(Max(0, pos - SLen(s)))), d), Drop(s, pos + SLen(d)))

-----------------------------------------------------------------------------
(* Arithmetic helpers of the code *)

TruncateToPageBoundary(page_size, s) == s - (s % page_size)
Roundup(x, y) == ((x + y - 1) \div y) * y


-----------------------------------------------------------------------------
(* Program constants *)

kDefaultPageSize == 4096
kBytesNotSyncRange == 1024 * 1024
kBytesAlignWhenSync == 4 * 1024

OK == "OK"
IOError(what) == "IOError:" \o what

-----------------------------------------------------------------------------
(* AlignedBuffer: mem is the allocated region (cap bytes), cur the current size *)

Buf(w) == Take(w.mem, w.cur)

AllocateNewBuffer(w, requested_capacity, copy_data) ==
  IF copy_data /\ requested_capacity < w.cur THEN w
  ELSE LET new_capacity == Roundup(requested_capacity, cfg.align)
           kept == IF copy_data THEN Buf(w) ELSE <<>>
       IN [w EXCEPT !.cap = new_capacity,
                    !.mem = Cat(kept, Uninit(new_capacity - SLen(kept))),
                    !.cur = SLen(kept)]

\* number of bytes AlignedBuffer::Append copies
BufAppended(w, n) == Min(n, w.cap - w.cur)

BufAppend(w, src) ==
  LET to_copy == BufAppended(w, SLen(src))
  IN [w EXCEPT !.mem = Overwrite(@, w.cur, Take(src, to_copy)),
               !.cur = @ + to_copy]

PadWith(w, bytes) ==
  [w EXCEPT !.mem = Overwrite(@, w.cur, bytes), !.cur = @ + SLen(bytes)]

PadToAlignmentWith(w) ==
  PadWith(w, Zeros(Roundup(w.cur, cfg.align) - w.cur))

RefitTail(w, tail_offset, tail_size) ==
  [w EXCEPT !.mem = Overwrite(@, 0, Slice(w.mem, tail_offset, tail_size)),
            !.cur = tail_size]

BufSize(w, n) == [w EXCEPT !.cur = n]

-----------------------------------------------------------------------------
(* CRC32C, symbolically: the checksum of a byte sequence is the sequence    *)
(* itself, 0 is the checksum of the empty sequence.                         *)

Crc32cValue(bytes) == bytes
Crc32cExtend(crc, bytes) == Cat(crc, bytes)
Crc32cCombine(crc1, crc2, len2) ==
  IF SLen(crc2) = len2 THEN Cat(crc1, crc2) ELSE Cat(crc1, Uninit(Max(1, len2)))

-----------------------------------------------------------------------------
(* The sink (FSWritableFile) and the rate limiter.  A handler runs on a     *)
(* record s = [fw, sink, calls, rl, fail, st]: rl is the script of grants   *)
(* the rate limiter will give, fail the ordinals of the handler's sink      *)
(* calls that return an IO error, st the status of the last step.  Each     *)
(* sink call is logged with the writer state it was made in.                *)

Failing(s) == (Len(s.calls) + 1) \in s.fail

Entry(s, op, data, off, n, hascks, cks) ==
  [op |-> op, data |-> data, off |-> off, n |-> n, hascks |-> hascks, cks |-> cks,
   ok |-> ~Failing(s), buf |-> Buf(s.fw), nwo |-> s.fw.nwo, pending |-> s.fw.pending,
   filesize |-> s.fw.filesize, lss |-> s.fw.lss, sdata |-> s.sink.data, nreq |-> s.nreq]

Logged(s, e) ==
  [s EXCEPT !.calls = @ \o <<e>>, !.st = IF e.ok THEN OK ELSE IOError(e.op)]

AcceptAppend(s, data) ==
  IF s.st = OK THEN [s EXCEPT !.sink.data = Cat(@, data)] ELSE s

SinkAppend(s, data, hascks, cks) ==
  AcceptAppend(Logged(s, Entry(s, "Append", data, SLen(s.sink.data), SLen(data), hascks, cks)),
               data)

AcceptPositionedAppend(s, data, offset) ==
  IF s.st = OK THEN [s EXCEPT !.sink.data = Overwrite(@, offset, data)] ELSE s

SinkPositionedAppend(s, data, offset, hascks, cks) ==
  AcceptPositionedAppend(
    Logged(s, Entry(s, "PositionedAppend", data, offset, SLen(data), hascks, cks)),
    data, offset)

SinkFlush(s) == Logged(s, Entry(s, "Flush", <<>>, 0, 0, FALSE, <<>>))

SinkRangeSync(s, offset, nbytes) ==
  Logged(s, Entry(s, "RangeSync", <<>>, offset, nbytes, FALSE, <<>>))

AcceptSync(s) == IF s.st = OK THEN [s EXCEPT !.sink.synced = s.sink.data] ELSE s

SinkSync(s, use_fsync) ==
  AcceptSync(Logged(s, Entry(s, IF use_fsync THEN "Fsync" ELSE "Sync", <<>>, 0, 0, FALSE, <<>>)))

AcceptTruncate(s, size) ==
  IF s.st = OK
  THEN [s EXCEPT !.sink.data = Cat(Take(@, size), Zeros(Max(0, size - SLen(@))))]
  ELSE s

SinkTruncate(s, size) ==
  AcceptTruncate(Logged(s, Entry(s, "Truncate", <<>>, 0, size, FALSE, <<>>)), size)

SinkClose(s) ==
  [Logged(s, Entry(s, "Close", <<>>, 0, 0, FALSE, <<>>)) EXCEPT !.sink.closed = TRUE]

\* RateLimiter::RequestToken: what is granted of the bytes asked for (at least one
\* unit, at most the bytes), and the limiter after the request
Granted(s, bytes) ==
  IF s.rl = <<>> THEN bytes
  ELSE Min(bytes, Head(s.rl) * (IF cfg.direct THEN cfg.align ELSE 1))

RequestToken(s) == [s EXCEPT !.rl = IF @ = <<>> THEN @ ELSE Tail(@), !.nreq = @ + 1]

-----------------------------------------------------------------------------
(* WritableFileWriter: the write drivers *)

Crc32cHandoffChecksumCalculation(data) == Crc32cExtend(<<>>, data)

Checksummed == cfg.pdv /\ cfg.bdc

\* what one iteration of a chunked driver may write
Allowed(s, left) == IF cfg.rl THEN Granted(s, SLen(left)) ELSE SLen(left)

RECURSIVE WriteBufferedLoop(_, _)

WriteBufferedChunk(s, chunk) ==
  SinkAppend(IF cfg.rl THEN RequestToken(s) ELSE s, chunk, cfg.pdv,
             IF cfg.pdv THEN Crc32cHandoffChecksumCalculation(chunk) ELSE <<>>)

WriteBufferedNext(s, rest) == IF s.st # OK THEN s ELSE WriteBufferedLoop(s, rest)

\* the loop of WriteBuffered: left is what remains of [data, data + size)
WriteBufferedLoop(s, left) ==
  IF left = <<>>
  THEN [s EXCEPT !.fw.cur = 0, !.fw.crc = <<>>]
  ELSE WriteBufferedNext(WriteBufferedChunk(s, Take(left, Allowed(s, left))),
                         Drop(left, Allowed(s, left)))

WriteBuffered(s, data) == WriteBufferedLoop([s EXCEPT !.st = OK], data)

\* the loop that asks the rate limiter until the whole size is granted
\* a writer that asks the rate limiter once and takes what it grants for the whole size
ConsumeOnce(s, data_size) == RequestToken(s)

RECURSIVE ConsumeTokens(_, _)
ConsumeTokens(s, data_size) ==
  IF data_size <= 0 THEN s
  ELSE ConsumeTokens(RequestToken(s), data_size - Granted(s, data_size))

BufferWritten(s) == IF s.st # OK THEN s ELSE [s EXCEPT !.fw.cur = 0, !.fw.crc = <<>>]

WriteBufferedWithChecksum(s, data) ==
  BufferWritten(SinkAppend(IF cfg.rl THEN ConsumeTokens(s, SLen(data)) ELSE s,
                           data, TRUE, s.fw.crc))

RECURSIVE WriteDirectLoop(_, _, _, _)

\* a writer that appends the chunks at the end of the file
WriteDirectChunkPlain(s, chunk, write_offset) ==
  SinkAppend(IF cfg.rl THEN RequestToken(s) ELSE s, chunk, cfg.pdv,
             IF cfg.pdv THEN Crc32cHandoffChecksumCalculation(chunk) ELSE <<>>)

WriteDirectChunk(s, chunk, write_offset) ==
  SinkPositionedAppend(IF cfg.rl THEN RequestToken(s) ELSE s, chunk, write_offset, cfg.pdv,
                       IF cfg.pdv THEN Crc32cHandoffChecksumCalculation(chunk) ELSE <<>>)

\* a writer that keeps the padding in the buffer when the write fails
WriteDirectNextKeepPadding(s, rest, write_offset, restore) ==
  IF s.st # OK THEN s ELSE WriteDirectLoop(s, rest, write_offset, restore)

WriteDirectNext(s, rest, write_offset, restore) ==
  IF s.st # OK
  THEN [s EXCEPT !.fw = BufSize(@, restore)]
  ELSE WriteDirectLoop(s, rest, write_offset, restore)

\* the loop of WriteDirect: left is what remains of the padded buffer
WriteDirectLoop(s, left, write_offset, restore) ==
  IF left = <<>> THEN s
  ELSE WriteDirectNext(WriteDirectChunk(s, Take(left, Allowed(s, left)), write_offset),
                       Drop(left, Allowed(s, left)),
                       write_offset + Allowed(s, left), restore)

WriteDirectPadded(s, restore) == WriteDirectLoop(s, Buf(s.fw), s.fw.nwo, restore)

\* a writer that keeps next_write_offset_ after a direct write
WriteDirectEndKeepOffset(s, file_advance, leftover_tail) ==
  IF s.st # OK THEN s ELSE [s EXCEPT !.fw = RefitTail(@, file_advance, leftover_tail)]

WriteDirectEnd(s, file_advance, leftover_tail) ==
  IF s.st # OK THEN s
  ELSE [s EXCEPT !.fw = [RefitTail(@, file_advance, leftover_tail)
                           EXCEPT !.nwo = @ + file_advance]]

WriteDirect(s) ==
  WriteDirectEnd(
    WriteDirectPadded([s EXCEPT !.fw = PadToAlignmentWith(@), !.st = OK], s.fw.cur),
    TruncateToPageBoundary(cfg.align, s.fw.cur),
    s.fw.cur - TruncateToPageBoundary(cfg.align, s.fw.cur))

\* pad to the alignment and fold the checksum of the padding into the running one
PadAndCombine(w, last_cur_size) ==
  [w EXCEPT !.crc = Crc32cCombine(@, Crc32cValue(Slice(w.mem, last_cur_size,
                                                       w.cur - last_cur_size)),
                                  w.cur - last_cur_size)]

WriteWholeBuffer(s) ==
  SinkPositionedAppend(IF cfg.rl THEN ConsumeTokens(s, s.fw.cur) ELSE s,
                       Buf(s.fw), s.fw.nwo, TRUE, s.fw.crc)

Recomputed(w) == [w EXCEPT !.crc = Crc32cValue(Buf(w))]

WriteDirectWithChecksumEnd(s, file_advance, leftover_tail) ==
  IF s.st # OK
  THEN [s EXCEPT !.fw = Recomputed(BufSize(@, file_advance + leftover_tail))]
  ELSE [s EXCEPT !.fw = [Recomputed(RefitTail(@, file_advance, leftover_tail))
                           EXCEPT !.nwo = @ + file_advance]]

WriteDirectWithChecksum(s) ==
  WriteDirectWithChecksumEnd(
    WriteWholeBuffer([s EXCEPT !.fw = PadAndCombine(PadToAlignmentWith(@), s.fw.cur)]),
    TruncateToPageBoundary(cfg.align, s.fw.cur),
    s.fw.cur - TruncateToPageBoundary(cfg.align, s.fw.cur))

-----------------------------------------------------------------------------
(* WritableFileWriter: Flush, Sync, RangeSync *)

RangeSync(s, offset, nbytes) == SinkRangeSync(s, offset, nbytes)

\* a writer that syncs up to the end of the file, keeping no reserve
OffsetSyncToNoReserve(filesize) == filesize - (filesize % kBytesAlignWhenSync)

\* a writer that rounds the end of the file up
OffsetSyncToRoundUp(filesize) == Roundup(filesize, kBytesAlignWhenSync)

OffsetSyncTo(filesize) ==
  (filesize - kBytesNotSyncRange) - ((filesize - kBytesNotSyncRange) % kBytesAlignWhenSync)

Asserted(s, holds, what) == IF holds THEN s ELSE [s EXCEPT !.fw.asserts = @ \cup {what}]

\* a writer that leaves last_sync_size_ where it was
FlushRangeSyncKeep(s, offset_sync_to) ==
  IF offset_sync_to > 0 /\ (offset_sync_to < s.fw.lss
                            \/ offset_sync_to - s.fw.lss >= cfg.bytes_per_sync)
  THEN RangeSync(s, s.fw.lss, offset_sync_to - s.fw.lss)
  ELSE s

\* the trailing step of Flush: sync the OS cache up to 1 MiB behind the end.  The
\* difference of the offsets is unsigned: it wraps to a huge value when negative.
FlushRangeSync(s, offset_sync_to) ==
  IF offset_sync_to > 0 /\ (offset_sync_to < s.fw.lss
                            \/ offset_sync_to - s.fw.lss >= cfg.bytes_per_sync)
  THEN [RangeSync(s, s.fw.lss, offset_sync_to - s.fw.lss) EXCEPT !.fw.lss = offset_sync_to]
  ELSE s

FlushSynced(s) ==
  IF s.st # OK THEN s
  ELSE IF ~cfg.direct /\ cfg.bytes_per_sync > 0 /\ s.fw.filesize > kBytesNotSyncRange
       THEN FlushRangeSync(Asserted(s, OffsetSyncTo(s.fw.filesize) >= s.fw.lss,
                                    "offset_sync_to >= last_sync_size_"),
                           OffsetSyncTo(s.fw.filesize))
       ELSE s

FlushWritten(s) == IF s.st # OK THEN s ELSE FlushSynced(SinkFlush(s))

FlushBuffer(s) ==
  IF s.fw.cur > 0
  THEN IF cfg.direct
       THEN IF s.fw.pending
            THEN IF Checksummed THEN WriteDirectWithChecksum(s) ELSE WriteDirect(s)
            ELSE s
       ELSE IF Checksummed THEN WriteBufferedWithChecksum(s, Buf(s.fw))
                           ELSE WriteBuffered(s, Buf(s.fw))
  ELSE s

Flush(s) == FlushWritten(FlushBuffer([s EXCEPT !.st = OK]))

\* a writer whose sync marks everything as synced
SyncInternalClearing(s, use_fsync) == [SinkSync(s, use_fsync) EXCEPT !.fw.pending = FALSE]

SyncInternal(s, use_fsync) == SinkSync(s, use_fsync)

\* a writer whose Sync leaves pending_sync_ as it was
SyncEndKeep(s) == s

SyncEnd(s) == IF s.st # OK THEN s ELSE [s EXCEPT !.fw.pending = FALSE, !.st = OK]

SyncFlushed(s, use_fsync) ==
  IF s.st # OK THEN s
  ELSE IF ~cfg.direct /\ s.fw.pending THEN SyncInternal(s, use_fsync) ELSE s

Sync(s, use_fsync) == SyncEnd(SyncFlushed(Flush(s), use_fsync))

\* a writer that flushes and syncs as Sync does
SyncWithoutFlushAsSync(s, use_fsync, is_sync_thread_safe) == Sync(s, use_fsync)

SyncWithoutFlush(s, use_fsync, is_sync_thread_safe) ==
  IF ~is_sync_thread_safe THEN [s EXCEPT !.st = "NotSupported"]
  ELSE SyncInternal(s, use_fsync)

-----------------------------------------------------------------------------
(* WritableFileWriter: Append, Pad, Close *)

UpdateFileChecksum(w, data) ==
  IF cfg.gen THEN [w EXCEPT !.gen = Cat(@, data)] ELSE w

\* the loop that doubles the capacity until the data fits or the maximum is reached
RECURSIVE GrowLoop(_, _, _)
\* a writer that never enlarges its buffer
GrowLoopNever(w, cap, left) == w

GrowLoop(w, cap, left) ==
  IF cap < cfg.max_buffer_size
  THEN IF Min(cap * 2, cfg.max_buffer_size) - w.cur >= left
          \/ (cfg.direct /\ Min(cap * 2, cfg.max_buffer_size) = cfg.max_buffer_size)
       THEN AllocateNewBuffer(w, Min(cap * 2, cfg.max_buffer_size), TRUE)
       ELSE GrowLoop(w, cap * 2, left)
  ELSE w

RECURSIVE AppendLoop(_, _)

AppendCopy(s, left) ==
  [s EXCEPT !.fw = [BufAppend(@, left) EXCEPT
                      !.crc = IF Checksummed
                              THEN Crc32cExtend(@, Take(left, BufAppended(s.fw, SLen(left))))
                              ELSE @]]

AppendFlushed(s, rest) == IF s.st # OK THEN s ELSE AppendLoop(s, rest)

AppendCopied(s, rest) == IF rest # <<>> THEN AppendFlushed(Flush(s), rest) ELSE s

\* the loop that copies into the buffer and flushes when it is full
AppendLoop(s, left) ==
  IF left = <<>> THEN s
  ELSE AppendCopied(AppendCopy(s, left), Drop(left, BufAppended(s.fw, SLen(left))))

AppendBegin(s, data) ==
  [s EXCEPT !.fw = UpdateFileChecksum([@ EXCEPT !.pending = TRUE], data), !.st = OK]

\* see whether the buffer must be enlarged to avoid the flush
AppendGrow(s, left) ==
  IF s.fw.cap - s.fw.cur < left THEN [s EXCEPT !.fw = GrowLoop(@, s.fw.cap, left)] ELSE s

\* flush only when buffered I/O
AppendFlush(s, left) ==
  IF ~cfg.direct /\ s.fw.cap - s.fw.cur < left /\ s.fw.cur > 0 THEN Flush(s) ELSE s

\* the caller's checksum is folded in when the data fits the buffer as a whole
AppendWhole(s, data, crc32c_checksum) ==
  [s EXCEPT !.fw = [BufAppend(@, data) EXCEPT
                      !.crc = Crc32cCombine(@, crc32c_checksum,
                                            BufAppended(s.fw, SLen(data)))],
            !.st = IF BufAppended(s.fw, SLen(data)) # SLen(data) THEN "Corruption" ELSE OK]

\* the two branches of Append (with and without the caller's checksum), merged by
\* what they do: fold the checksum, copy in a loop, or write past the buffer
AppendWrite(s, data, handoff, crc32c_checksum) ==
  IF s.st # OK THEN s
  ELSE IF handoff /\ s.fw.cap - s.fw.cur >= SLen(data)
       THEN AppendWhole(s, data, crc32c_checksum)
       ELSE IF cfg.direct \/ (~handoff /\ s.fw.cap >= SLen(data))
            THEN AppendLoop(s, data)
            ELSE IF Checksummed
                 THEN WriteBufferedWithChecksum(
                        [s EXCEPT !.fw.crc = IF handoff THEN crc32c_checksum
                                             ELSE Crc32cValue(data)], data)
                 ELSE WriteBuffered(s, data)

\* a writer that does not count the appended bytes
AppendEndNoCount(s, size) == s

\* a writer that counts the appended bytes whatever the outcome
AppendEndAlways(s, size) == [s EXCEPT !.fw.filesize = @ + size]

AppendEnd(s, size) == IF s.st = OK THEN [s EXCEPT !.fw.filesize = @ + size] ELSE s

WFW_Append(s, data, crc32c_checksum) ==
  AppendEnd(
    AppendWrite(AppendFlush(AppendGrow(AppendBegin(s, data), SLen(data)), SLen(data)),
                data, Checksummed /\ crc32c_checksum # <<>>, crc32c_checksum),
    SLen(data))

RECURSIVE PadLoop(_, _, _)

\* When the buffer is full and Flush leaves it full, every later iteration pads
\* nothing and flushes again: the loop ends only if a sink flush fails, and
\* otherwise never ("HANG": the call does not return).
PadFlushed(s, rest, append_bytes) ==
  IF s.st # OK THEN s
  ELSE IF s.fw.cap - s.fw.cur = 0 /\ append_bytes = 0 /\ \A k \in s.fail : k <= Len(s.calls)
       THEN [s EXCEPT !.st = "HANG", !.fw.hung = TRUE]
       ELSE PadLoop(s, rest, s.fw.cap - s.fw.cur)

PadPadded(s, rest, append_bytes) ==
  IF rest # <<>> THEN PadFlushed(Flush(s), rest, append_bytes) ELSE s

\* the loop of Pad
PadLoop(s, left, cap) ==
  IF left = <<>> THEN s
  ELSE PadPadded([s EXCEPT !.fw = PadWith(@, Take(left, Min(cap, SLen(left))))],
                 Drop(left, Min(cap, SLen(left))), Min(cap, SLen(left)))

\* a writer that does not count the padding
PadEndKeepSize(s, pad_start, pad_bytes) ==
  IF s.st # OK THEN s ELSE [s EXCEPT !.fw.pending = TRUE]

PadEnd(s, pad_start, pad_bytes) ==
  IF s.st # OK THEN s
  ELSE [s EXCEPT
          !.fw.pending = TRUE,
          !.fw.filesize = @ + pad_bytes,
          !.fw.crc = IF cfg.pdv
                     THEN Crc32cExtend(@, Slice(Cat(s.fw.mem, Uninit(pad_bytes)),
                                                pad_start, pad_bytes))
                     ELSE @]

Pad(s, padding) ==
  PadEnd(PadLoop([s EXCEPT !.st = OK], padding, s.fw.cap - s.fw.cur),
         s.fw.cur, SLen(padding))

\* a writer that returns the latest failure
CombineLatest(st, interim) == IF interim # OK THEN interim ELSE st

\* st = the status so far, interim = the status of the next step
Combine(st, interim) == IF interim # OK /\ st = OK THEN interim ELSE st

Combined(s, st) == [s EXCEPT !.st = Combine(st, s.st)]

\* Fsync only when Truncate succeeded
CloseFsync(s) == IF s.st = OK THEN SinkSync(s, TRUE) ELSE s

\* a writer that leaves the file as long as the pages written
CloseNoTruncate(s) == IF cfg.direct THEN Combined(CloseFsync(s), s.st) ELSE s

\* in direct I/O mode whole pages are written: let the file know where data ends
CloseTruncate(s) ==
  IF cfg.direct
  THEN Combined(CloseFsync(SinkTruncate(s, s.fw.filesize)), s.st)
  ELSE s

CloseFile(s) == Combined(SinkClose(s), s.st)

\* a writer that keeps the handle when a sub-step of Close failed
CloseEndKeepOnError(s, finalize) ==
  IF s.st # OK THEN s
  ELSE [s EXCEPT !.fw.open = FALSE,
                 !.fw.finalized = @ \/ finalize,
                 !.fw.nfinal = IF finalize THEN @ + 1 ELSE @]

CloseEnd(s, finalize) ==
  [s EXCEPT !.fw.open = FALSE,
            !.fw.finalized = @ \/ finalize,
            !.fw.nfinal = IF finalize THEN @ + 1 ELSE @]

\* a writer that finalizes the checksum whatever Close returns
CloseReleaseAlways(s) == CloseEnd(s, cfg.gen)

CloseRelease(s) == CloseEnd(s, s.st = OK /\ cfg.gen /\ ~s.fw.finalized)

Close(s) ==
  IF ~s.fw.open THEN [s EXCEPT !.st = OK]
  ELSE CloseRelease(CloseFile(CloseTruncate(Flush(s))))

-----------------------------------------------------------------------------
(* log::Writer.  Its handlers run on the same record s, extended with       *)
(* lw = the writer's fields and what it did in this call (the physical      *)
(* records emitted, the calls made on the file writer), and passed = the    *)
(* bytes given to the file writer's Append so far.                          *)

kBlockSize == 32768
kHeaderSize == 7
kRecyclableHeaderSize == 11
kZeroType == 0
kFullType == 1
kFirstType == 2
kMiddleType == 3
kLastType == 4
kRecyclableFullType == 5
kRecyclableFirstType == 6
kRecyclableMiddleType == 7
kRecyclableLastType == 8
kMaxRecordType == kRecyclableLastType

\* the bytes of a header: a 32-bit and a 16-bit little-endian value, the type byte
EncodeFixed32(v) == <<Run("F", <<v>>, 0, 4)>>
EncodeLength(n) == <<Run("N", <<n % 256, (n \div 256) % 256>>, 0, 2)>>
TypeByte(t) == <<Run("T", <<t>>, 0, 1)>>

\* crc32c::Mask, the form in which a checksum is stored
Mask(crc) == [masked |-> crc]

\* static_cast<uint32_t> of the 64-bit log number, kept as its two halves
Low32(log_number) == [u32 |-> log_number.lo]

LwAsserted(s, holds, what) == IF holds THEN s ELSE [s EXCEPT !.lw.asserts = @ \cup {what}]

\* a call on dest_, with what it was given and what it returned
DestCalled(s, op, data) ==
  [s EXCEPT !.lw.fwcalls = Append(@, [op |-> op, data |-> data, st |-> s.st])]

DestAppend(s, data, crc32c_checksum) ==
  DestCalled([WFW_Append(s, data, crc32c_checksum) EXCEPT !.passed = Cat(@, data)],
             "Append", data)

DestFlush(s) == DestCalled(Flush(s), "Flush", <<>>)

WriteBuffer(s) == DestFlush(s)

LogClose(s) ==
  IF s.lw.open
  THEN [DestCalled(Close(s), "Close", <<>>) EXCEPT !.lw.open = FALSE]
  ELSE [s EXCEPT !.st = OK]

\* a writer that leaves the log number out of the checksum
RecordCrcLegacy(t, payload) ==
  Crc32cCombine(Crc32cValue(TypeByte(t)), Crc32cValue(payload), SLen(payload))

\* the checksum of the type byte, the log number (recyclable format) and the payload
RecordCrc(t, payload) ==
  Crc32cCombine(IF t < kRecyclableFullType
                THEN Crc32cValue(TypeByte(t))
                ELSE Crc32cExtend(Crc32cValue(TypeByte(t)),
                                  EncodeFixed32(Low32(cfg.log_number))),
                Crc32cValue(payload), SLen(payload))

FormatHeader(t, payload) ==
  EncodeFixed32(Mask(RecordCrc(t, payload))) \o EncodeLength(SLen(payload)) \o TypeByte(t)
    \o (IF t < kRecyclableFullType THEN <<>> ELSE EncodeFixed32(Low32(cfg.log_number)))

EmitChecked(s, t, n) ==
  LwAsserted(LwAsserted(s, n <= 65535, "n <= 0xffff"),
             s.lw.block_offset + n
               + (IF t < kRecyclableFullType THEN kHeaderSize ELSE kRecyclableHeaderSize)
               <= kBlockSize,
             "block_offset_ + header_size + n <= kBlockSize")

EmitPayload(s, payload) ==
  IF s.st = OK THEN DestAppend(s, payload, Crc32cValue(payload)) ELSE s

\* a writer that counts the header twice
EmittedTwice(s, t, payload) ==
  [s EXCEPT !.lw.block_offset =
              @ + SLen(payload)
                + 2 * (IF t < kRecyclableFullType THEN kHeaderSize ELSE kRecyclableHeaderSize),
            !.lw.frags = Append(@, [t |-> t, payload |-> payload, st |-> s.st])]

\* a writer that advances block_offset_ only when the appends returned OK
EmittedIfOk(s, t, payload) ==
  [s EXCEPT !.lw.block_offset =
              IF s.st # OK THEN @
              ELSE @ + SLen(payload)
                     + (IF t < kRecyclableFullType THEN kHeaderSize
                        ELSE kRecyclableHeaderSize),
            !.lw.frags = Append(@, [t |-> t, payload |-> payload, st |-> s.st])]

\* block_offset_ advances whatever the appends returned
Emitted(s, t, payload) ==
  [s EXCEPT !.lw.block_offset =
              @ + SLen(payload)
                + (IF t < kRecyclableFullType THEN kHeaderSize ELSE kRecyclableHeaderSize),
            !.lw.frags = Append(@, [t |-> t, payload |-> payload, st |-> s.st])]

EmitPhysicalRecord(s, t, payload) ==
  Emitted(EmitPayload(DestAppend(EmitChecked(s, t, SLen(payload)),
                                 FormatHeader(t, payload), <<>>),
                      payload),
          t, payload)

HeaderSize == IF cfg.recycle THEN kRecyclableHeaderSize ELSE kHeaderSize

\* a writer that marks every fragment as a whole record
FragmentTypeAlwaysFull(begin, end) ==
  IF cfg.recycle THEN kRecyclableFullType ELSE kFullType

FragmentType(begin, end) ==
  IF begin /\ end THEN (IF cfg.recycle THEN kRecyclableFullType ELSE kFullType)
  ELSE IF begin THEN (IF cfg.recycle THEN kRecyclableFirstType ELSE kFirstType)
  ELSE IF end THEN (IF cfg.recycle THEN kRecyclableLastType ELSE kLastType)
  ELSE (IF cfg.recycle THEN kRecyclableMiddleType ELSE kMiddleType)

RECURSIVE AddRecordLoop(_, _, _, _)

BlockSwitched(s) == IF s.st # OK THEN s ELSE [s EXCEPT !.lw.block_offset = 0]

\* a writer that starts the new block without filling the trailer
SwitchBlockNoTrailer(s, leftover) ==
  IF leftover < HeaderSize THEN BlockSwitched(s) ELSE s

\* switch to a new block, filling the trailer, when no header fits in this one
SwitchBlock(s, leftover) ==
  IF leftover < HeaderSize
  THEN BlockSwitched(IF leftover > 0
                     THEN DestAppend(LwAsserted(s, HeaderSize <= 11, "header_size <= 11"),
                                     Zeros(Min(leftover, 10)), <<>>)
                     ELSE s)
  ELSE s

\* a writer that stops after the first fragment
AddRecordNextStop(s, slice, ptr) == s

AddRecordNext(s, slice, ptr) ==
  IF s.st = OK /\ SLen(slice) - ptr > 0 THEN AddRecordLoop(s, slice, ptr, FALSE) ELSE s

AddRecordEmit(s, slice, ptr, begin, fragment_length) ==
  AddRecordNext(
    EmitPhysicalRecord(s, FragmentType(begin, SLen(slice) - ptr = fragment_length),
                       Slice(slice, ptr, fragment_length)),
    slice, ptr + fragment_length)

\* a writer that fills the block without leaving room for the header
AddRecordFragmentWide(s, slice, ptr, begin) ==
  IF s.st # OK THEN s
  ELSE AddRecordEmit(s, slice, ptr, begin,
                     Min(SLen(slice) - ptr, kBlockSize - s.lw.block_offset))

AddRecordFragment(s, slice, ptr, begin) ==
  IF s.st # OK THEN s
  ELSE AddRecordEmit(
         LwAsserted(s, kBlockSize - s.lw.block_offset >= HeaderSize,
                    "kBlockSize - block_offset_ >= header_size"),
         slice, ptr, begin,
         Min(SLen(slice) - ptr, kBlockSize - s.lw.block_offset - HeaderSize))

\* one iteration of the loop of AddRecord: ptr is how much of the slice is emitted
AddRecordLoop(s, slice, ptr, begin) ==
  AddRecordFragment(
    SwitchBlock(LwAsserted(s, kBlockSize - s.lw.block_offset >= 0, "leftover >= 0"),
                kBlockSize - s.lw.block_offset),
    slice, ptr, begin)

\* a writer that never flushes
AddRecordEndNoFlush(s) == s

AddRecordEnd(s) == IF s.st = OK /\ ~cfg.manual_flush THEN DestFlush(s) ELSE s

AddRecord(s, slice) == AddRecordEnd(AddRecordLoop([s EXCEPT !.st = OK], slice, 0, TRUE))

-----------------------------------------------------------------------------
(* Bounds of the model *)

MaxOps == 3          \* operations on one file writer
MaxFailIdx == 4      \* a sink call later than this one of a handler never fails
MaxGrant == 1        \* the rate limiter grants 1..MaxGrant units (bytes, or pages in direct I/O)
MaxScriptLen == 1    \* partial grants per handler; later requests are granted in full
MaxLogFailIdx == 2   \* the same for the handlers of the log writer
SmallCap == 8        \* initial buffer capacity of the buffered configurations

\* the sink calls of a handler that fail: none or one for the handlers that stop at
\* the first error, any set for Close, which goes on
FailOne == {{}} \cup {{k} : k \in 1..MaxFailIdx}
FailAny == SUBSET (1..MaxFailIdx)

\* the same for the handlers of the log writer
LogFailOne == {{}} \cup {{k} : k \in 1..MaxLogFailIdx}
LogFailAny == SUBSET (1..MaxLogFailIdx)

\* what the rate limiter grants to the successive requests of one handler
Scripts == UNION {[1..len -> 1..MaxGrant] : len \in 1..MaxScriptLen}

-----------------------------------------------------------------------------
(* Configurations and initial state *)

BigSize == kBytesNotSyncRange + 2 * kBytesAlignWhenSync

FwConfigs ==
  {c \in [direct : BOOLEAN, align : {1, kDefaultPageSize}, cap0 : {SmallCap, kDefaultPageSize},
          max_buffer_size : {SmallCap, 2 * SmallCap, kDefaultPageSize, 2 * kDefaultPageSize},
          bytes_per_sync : {0, kBytesAlignWhenSync}, rl : BOOLEAN,
          grants : Scripts \cup {<<>>},
          pdv : BOOLEAN, bdc : BOOLEAN, gen : {TRUE},
          recycle : {FALSE}, manual_flush : {FALSE}, log_number : {[hi |-> 0, lo |-> 0]}] :
     /\ c.align = (IF c.direct THEN kDefaultPageSize ELSE 1)
     /\ c.cap0 = (IF c.direct THEN kDefaultPageSize ELSE SmallCap)
     /\ c.max_buffer_size \in {c.cap0, 2 * c.cap0}
     /\ (c.direct => c.bytes_per_sync = 0)
     /\ (c.rl <=> c.grants # <<>>)
     /\ (c.bdc => c.pdv)}

\* WritableFileWriter's constructor
NewWriter(c) ==
  LET cap == Roundup(c.cap0, c.align)
  IN [open |-> TRUE, mem |-> Uninit(cap), cur |-> 0, cap |-> cap, filesize |-> 0,
      nwo |-> 0, lss |-> 0, pending |-> FALSE, crc |-> <<>>, gen |-> <<>>,
      finalized |-> FALSE, nfinal |-> 0, hung |-> FALSE, asserts |-> {}]

NewSink == [data |-> <<>>, synced |-> <<>>, closed |-> FALSE]

NoOp ==
  [op |-> "none", n |-> 0, st |-> OK, arg |-> FALSE, pre |-> NewWriter(cfg), acked |-> <<>>]

\* log::Writer's constructor
NewLogWriter ==
  [block_offset |-> 0, open |-> TRUE, frags |-> <<>>, fwcalls |-> <<>>, asserts |-> {}]

\* no Append is in progress
Idle == [pc |-> "idle"]

InitWith(configs) ==
  /\ cfg \in configs
  /\ fw = NewWriter(cfg)
  /\ sink = NewSink
  /\ calls = <<>>
  /\ hist = [n |-> 0, last |-> NoOp, allok |-> TRUE, nofail |-> TRUE, ops |-> {},
            acked |-> <<>>]
  /\ passed = <<>>
  /\ lw = NewLogWriter
  /\ recs = <<>>
  /\ task = Idle

Init == InitWith(FwConfigs)

\* the configurations of a log writer over a buffered file writer
LogConfigs ==
  {c \in [direct : {FALSE}, align : {1}, cap0 : {SmallCap},
          max_buffer_size : {2 * SmallCap}, bytes_per_sync : {0}, rl : {FALSE},
          grants : {<<>>}, pdv : BOOLEAN, bdc : BOOLEAN, gen : {TRUE},
          recycle : BOOLEAN, manual_flush : BOOLEAN,
          log_number : {[hi |-> 1, lo |-> 66]}] :
     c.bdc = c.pdv}

InitLog == InitWith(LogConfigs)

-----------------------------------------------------------------------------
(* Operations on the file writer *)

Start(fail) ==
  [fw |-> fw, sink |-> sink, calls |-> <<>>, rl |-> cfg.grants, nreq |-> 0, fail |-> fail,
   st |-> OK]

\* the state after a handler that ended in s: acked is the data of the calls of Append
\* and Pad that returned OK, last.pre and last.acked the writer and acked before it
Done(s, op, n, arg, data) ==
  /\ fw' = s.fw
  /\ sink' = s.sink
  /\ calls' = s.calls
  /\ hist' = [n |-> hist.n + 1,
              last |-> [op |-> op, n |-> n, st |-> s.st, arg |-> arg, pre |-> fw,
                        acked |-> hist.acked],
              allok |-> hist.allok /\ s.st = OK,
              nofail |-> hist.nofail /\ \A i \in 1..Len(s.calls) : s.calls[i].ok,
              ops |-> hist.ops \cup {op},
              acked |-> IF s.st = OK THEN Cat(hist.acked, data) ELSE hist.acked]
  /\ task' = Idle

Usable == fw.open /\ ~fw.hung /\ hist.n < MaxOps

AppendSizes ==
  {1, cfg.cap0 - 1, cfg.max_buffer_size + 1}
    \cup (IF cfg.bytes_per_sync > 0 THEN {BigSize} ELSE {})

PadSizes == {0, 1, Min(kDefaultPageSize - 1, 2 * cfg.cap0 + 1)}

NewData(n) == IF n = 0 THEN <<>> ELSE <<Run("D", <<>>, SLen(passed), n)>>
NewPadding(n) == IF n = 0 THEN <<>> ELSE <<Run("P", <<>>, SLen(passed), n)>>

\* the caller passes the checksum of the data, or 0 (none)
HandoffChoices == IF cfg.pdv /\ cfg.bdc THEN BOOLEAN ELSE {FALSE}

AppendOp ==
  /\ Usable
  /\ \E n \in AppendSizes, with_crc \in HandoffChoices, fail \in FailOne :
       LET data == NewData(n)
           s == WFW_Append(Start(fail), data,
                           IF with_crc THEN Crc32cValue(data) ELSE <<>>)
       IN /\ Done(s, "Append", n, with_crc, data)
          /\ passed' = Cat(passed, data)
  /\ UNCHANGED <<cfg, lw, recs>>

PadOp ==
  /\ Usable
  /\ \E n \in PadSizes, fail \in FailOne :
       LET padding == NewPadding(n)
           s == Pad(Start(fail), padding)
       IN /\ Done(s, "Pad", n, FALSE, padding)
          /\ passed' = Cat(passed, padding)
  /\ UNCHANGED <<cfg, lw, recs>>

FlushOp ==
  /\ Usable
  /\ \E fail \in FailOne :
       Done(Flush(Start(fail)), "Flush", 0, FALSE, <<>>)
  /\ UNCHANGED <<cfg, passed, lw, recs>>

SyncOp ==
  /\ Usable
  /\ \E use_fsync \in BOOLEAN, fail \in FailOne :
       Done(Sync(Start(fail), use_fsync), "Sync", 0, use_fsync, <<>>)
  /\ UNCHANGED <<cfg, passed, lw, recs>>

\* recorded with n = 1 when the sink reports IsSyncThreadSafe, n = 0 when it does not
SyncWithoutFlushOp ==
  /\ Usable
  /\ \E use_fsync \in BOOLEAN, is_sync_thread_safe \in BOOLEAN, fail \in FailOne :
       Done(SyncWithoutFlush(Start(fail), use_fsync, is_sync_thread_safe),
            "SyncWithoutFlush", IF is_sync_thread_safe THEN 1 ELSE 0, use_fsync, <<>>)
  /\ UNCHANGED <<cfg, passed, lw, recs>>

CloseOp ==
  /\ ~fw.hung /\ hist.n < MaxOps
  /\ \E fail \in FailAny :
       Done(Close(Start(fail)), "Close", 0, FALSE, <<>>)
  /\ UNCHANGED <<cfg, passed, lw, recs>>

Next == AppendOp \/ PadOp \/ FlushOp \/ SyncOp \/ SyncWithoutFlushOp \/ CloseOp

Spec == Init /\ [][Next]_vars

-----------------------------------------------------------------------------
(* Operations on the log writer *)

StartLog(fail) ==
  [fw |-> fw, sink |-> sink, calls |-> <<>>, rl |-> cfg.grants, nreq |-> 0, fail |-> fail,
   st |-> OK,
   lw |-> [lw EXCEPT !.frags = <<>>, !.fwcalls = <<>>], passed |-> passed]

DoneLog(s, op, n) ==
  /\ Done(s, op, n, FALSE, <<>>)
  /\ lw' = s.lw
  /\ passed' = s.passed

\* lengths of the records: empty, short, filling the block, leaving less than a
\* header or exactly a header in it, and spanning three blocks
RecordSizes ==
  {0, 1, kBlockSize - HeaderSize, kBlockSize - HeaderSize - 3, kBlockSize - 2 * HeaderSize,
   2 * kBlockSize + 1}

LogUsable == lw.open /\ ~fw.hung /\ hist.n < MaxOps

AddRecordOp ==
  /\ LogUsable
  /\ \E n \in RecordSizes, fail \in LogFailOne :
       LET s == AddRecord(StartLog(fail), Data(Len(recs) + 1, n))
       IN /\ DoneLog(s, "AddRecord", n)
          /\ recs' = Append(recs, [id |-> Len(recs) + 1, n |-> n, st |-> s.st])
  /\ UNCHANGED cfg

WriteBufferOp ==
  /\ LogUsable
  /\ \E fail \in LogFailOne :
       DoneLog(WriteBuffer(StartLog(fail)), "WriteBuffer", 0)
  /\ UNCHANGED <<cfg, recs>>

LogCloseOp ==
  /\ ~fw.hung /\ hist.n < MaxOps
  /\ \E fail \in LogFailAny :
       DoneLog(LogClose(StartLog(fail)), "Close", 0)
  /\ UNCHANGED <<cfg, recs>>

NextLog == AddRecordOp \/ WriteBufferOp \/ LogCloseOp

SpecLog == InitLog /\ [][NextLog]_vars

-----------------------------------------------------------------------------
(* An Append that runs step by step, with SyncWithoutFlush called from another *)
(* thread between its steps.  task = [pc, s, data, crc, left, ret, from, swf]: *)
(* s is the handler's record, left what the copy loop has still to copy, ret   *)
(* where a Flush returns to, from the record the Append started on, swf the    *)
(* status SyncWithoutFlush returned ("none" before it ran).                    *)

MaxConcOps == 2      \* Appends in a row that run step by step

Handoff(t) == Checksummed /\ t.crc # <<>>

\* the branch of Append that copies in a loop
Loops(t) ==
  /\ ~(Handoff(t) /\ t.s.fw.cap - t.s.fw.cur >= SLen(t.data))
  /\ cfg.direct \/ (~Handoff(t) /\ t.s.fw.cap >= SLen(t.data))

\* where the Append goes on after a Flush
Returned(t) == [t EXCEPT !.pc = IF t.s.st # OK THEN "end" ELSE t.ret]

\* the next step of the Append
StepOf(t) ==
  CASE t.pc = "begin" -> [t EXCEPT !.s = AppendBegin(@, t.data), !.pc = "grow"]
    [] t.pc = "grow" -> [t EXCEPT !.s = AppendGrow(@, SLen(t.data)), !.pc = "flush"]
    [] t.pc = "flush" ->
         IF ~cfg.direct /\ t.s.fw.cap - t.s.fw.cur < SLen(t.data) /\ t.s.fw.cur > 0
         THEN [t EXCEPT !.s = FlushBuffer([@ EXCEPT !.st = OK]), !.pc = "flushed",
                        !.ret = "write"]
         ELSE [t EXCEPT !.pc = "write"]
    [] t.pc = "flushed" ->
         Returned([t EXCEPT !.s = FlushWritten(@)])
    [] t.pc = "write" ->
         IF Loops(t) THEN [t EXCEPT !.pc = "copy", !.left = t.data]
         ELSE [t EXCEPT !.s = AppendWrite(@, t.data, Handoff(t), t.crc), !.pc = "end"]
    [] t.pc = "copy" ->
         [t EXCEPT !.s = AppendCopy(@, t.left),
                   !.left = Drop(@, BufAppended(t.s.fw, SLen(t.left))),
                   !.pc = IF BufAppended(t.s.fw, SLen(t.left)) < SLen(t.left)
                          THEN "loopflush" ELSE "end"]
    [] t.pc = "loopflush" ->
         [t EXCEPT !.s = FlushBuffer([@ EXCEPT !.st = OK]), !.pc = "flushed",
                   !.ret = "copy"]
    [] t.pc = "end" -> [t EXCEPT !.s = AppendEnd(@, SLen(t.data)), !.pc = "done"]

AppendStart ==
  /\ task.pc = "idle" /\ fw.open /\ ~fw.hung /\ hist.n < MaxConcOps
  /\ \E n \in AppendSizes, with_crc \in HandoffChoices, fail \in FailOne :
       task' = [pc |-> "begin", s |-> Start(fail), data |-> NewData(n),
                crc |-> IF with_crc THEN Crc32cValue(NewData(n)) ELSE <<>>,
                left |-> <<>>, ret |-> "", from |-> Start(fail), swf |-> "none"]
  /\ UNCHANGED <<cfg, fw, sink, calls, hist, passed, lw, recs>>

AppendStep ==
  /\ task.pc \notin {"idle", "done"}
  /\ task' = StepOf(task)
  /\ UNCHANGED <<cfg, fw, sink, calls, hist, passed, lw, recs>>

\* the effect of a SyncWithoutFlush on the writer and the sink the Append works on
Synced(t, r) == [t EXCEPT !.s.fw = r.fw, !.s.sink = r.sink, !.swf = r.st]

\* SyncWithoutFlush on another thread, once, while the Append is between two steps;
\* the sink reports IsSyncThreadSafe
SyncWithoutFlushDuringAppend ==
  /\ task.pc # "idle" /\ task.swf = "none"
  /\ \E use_fsync \in BOOLEAN, fail \in {{}, {1}} :
       task' = Synced(task, SyncWithoutFlush([task.s EXCEPT !.calls = <<>>, !.fail = fail,
                                                            !.st = OK],
                                             use_fsync, TRUE))
  /\ UNCHANGED <<cfg, fw, sink, calls, hist, passed, lw, recs>>

AppendFinish ==
  /\ task.pc = "done"
  /\ Done(task.s, "Append", SLen(task.data), task.crc # <<>>, task.data)
  /\ passed' = Cat(passed, task.data)
  /\ UNCHANGED <<cfg, lw, recs>>

NextConc == AppendStart \/ AppendStep \/ SyncWithoutFlushDuringAppend \/ AppendFinish

SpecConc == Init /\ [][NextConc]_vars

-----------------------------------------------------------------------------
(* The task-returning variants.  The sink's AsyncAppend, AsyncPositionedAppend, *)
(* AsSync, AsFsync and AsRangeSync are the sink's operations of the same name  *)
(* awaited; a variant is written from its own code.                            *)

\* s unless the step before succeeded, then what F makes of it
Then(s, F(_)) == IF s.st # OK THEN s ELSE F(s)

\* what F makes of s if the step before failed, what G makes of it otherwise
OnError(s, F(_), G(_)) == IF s.st # OK THEN F(s) ELSE G(s)

With(x, F(_)) == F(x)

RECURSIVE AsyncWriteBufferedLoop(_, _)
AsyncWriteBufferedLoop(s, left) ==
  IF left = <<>>
  THEN [s EXCEPT !.fw.cur = 0, !.fw.crc = <<>>]
  ELSE Then(SinkAppend(IF cfg.rl THEN RequestToken(s) ELSE s, Take(left, Allowed(s, left)),
                       cfg.pdv,
                       IF cfg.pdv
                       THEN Crc32cHandoffChecksumCalculation(Take(left, Allowed(s, left)))
                       ELSE <<>>),
            LAMBDA x : AsyncWriteBufferedLoop(x, Drop(left, Allowed(s, left))))

AsyncWriteBuffered(s, data) == AsyncWriteBufferedLoop([s EXCEPT !.st = OK], data)

AsyncWriteBufferedWithChecksum(s, data) ==
  Then(SinkAppend(IF cfg.rl THEN ConsumeTokens(s, SLen(data)) ELSE s, data, TRUE, s.fw.crc),
       LAMBDA x : [x EXCEPT !.fw.cur = 0, !.fw.crc = <<>>])

RECURSIVE AsyncWriteDirectLoop(_, _, _, _)
AsyncWriteDirectLoop(s, left, write_offset, restore) ==
  IF left = <<>> THEN s
  ELSE OnError(SinkPositionedAppend(
                 IF cfg.rl THEN RequestToken(s) ELSE s, Take(left, Allowed(s, left)),
                 write_offset, cfg.pdv,
                 IF cfg.pdv
                 THEN Crc32cHandoffChecksumCalculation(Take(left, Allowed(s, left)))
                 ELSE <<>>),
               LAMBDA x : [x EXCEPT !.fw = BufSize(@, restore)],
               LAMBDA x : AsyncWriteDirectLoop(x, Drop(left, Allowed(s, left)),
                                               write_offset + Allowed(s, left), restore))

AsyncWriteDirect(s) ==
  Then(With([s EXCEPT !.fw = PadToAlignmentWith(@), !.st = OK],
            LAMBDA p : AsyncWriteDirectLoop(p, Buf(p.fw), p.fw.nwo, s.fw.cur)),
       LAMBDA x : [x EXCEPT !.fw = [RefitTail(@, TruncateToPageBoundary(cfg.align, s.fw.cur),
                                              s.fw.cur
                                                - TruncateToPageBoundary(cfg.align, s.fw.cur))
                                      EXCEPT !.nwo = @ + TruncateToPageBoundary(cfg.align,
                                                                                s.fw.cur)]])

AsyncWriteDirectWithChecksum(s) ==
  OnError(With([s EXCEPT !.fw = PadAndCombine(PadToAlignmentWith(@), s.fw.cur)],
               LAMBDA p : SinkPositionedAppend(
                            IF cfg.rl THEN ConsumeTokens(p, p.fw.cur) ELSE p,
                            Buf(p.fw), p.fw.nwo, TRUE, p.fw.crc)),
          LAMBDA x : [x EXCEPT !.fw = Recomputed(BufSize(@, s.fw.cur))],
          LAMBDA x : [x EXCEPT !.fw =
                        [Recomputed(RefitTail(@, TruncateToPageBoundary(cfg.align, s.fw.cur),
                                              s.fw.cur
                                                - TruncateToPageBoundary(cfg.align,
                                                                         s.fw.cur)))
                           EXCEPT !.nwo = @ + TruncateToPageBoundary(cfg.align, s.fw.cur)]])

AsRangeSync(s, offset, nbytes) == SinkRangeSync(s, offset, nbytes)

AsyncFlushBuffer(s) ==
  IF s.fw.cur > 0
  THEN IF cfg.direct
       THEN IF s.fw.pending
            THEN IF Checksummed THEN AsyncWriteDirectWithChecksum(s) ELSE AsyncWriteDirect(s)
            ELSE s
       ELSE IF Checksummed THEN AsyncWriteBufferedWithChecksum(s, Buf(s.fw))
                           ELSE AsyncWriteBuffered(s, Buf(s.fw))
  ELSE s

AsyncFlushSynced(s) ==
  IF ~cfg.direct /\ cfg.bytes_per_sync > 0 /\ s.fw.filesize > kBytesNotSyncRange
  THEN With(Asserted(s, OffsetSyncTo(s.fw.filesize) >= s.fw.lss,
                     "offset_sync_to >= last_sync_size_"),
            LAMBDA a :
              IF OffsetSyncTo(a.fw.filesize) > 0
                 /\ (OffsetSyncTo(a.fw.filesize) < a.fw.lss
                     \/ OffsetSyncTo(a.fw.filesize) - a.fw.lss >= cfg.bytes_per_sync)
              THEN [AsRangeSync(a, a.fw.lss, OffsetSyncTo(a.fw.filesize) - a.fw.lss)
                      EXCEPT !.fw.lss = OffsetSyncTo(a.fw.filesize)]
              ELSE a)
  ELSE s

AsyncFlush(s) ==
  Then(Then(AsyncFlushBuffer([s EXCEPT !.st = OK]), SinkFlush), AsyncFlushSynced)

AsSyncInternal(s, use_fsync) == SinkSync(s, use_fsync)

\* a task that leaves pending_sync_ as it was
AsSyncEndKeep(s) == s

AsSyncEnd(s) == [s EXCEPT !.fw.pending = FALSE, !.st = OK]

AsSync(s, use_fsync) ==
  Then(Then(AsyncFlush(s),
            LAMBDA x : IF ~cfg.direct /\ x.fw.pending THEN AsSyncInternal(x, use_fsync)
                       ELSE x),
       AsSyncEnd)

FragmentLength(s, slice, ptr) ==
  Min(SLen(slice) - ptr, kBlockSize - s.lw.block_offset - HeaderSize)

RECURSIVE AsyncAddRecordLoop(_, _, _, _)
AsyncAddRecordLoop(s, slice, ptr, begin) ==
  Then(SwitchBlock(LwAsserted(s, kBlockSize - s.lw.block_offset >= 0, "leftover >= 0"),
                   kBlockSize - s.lw.block_offset),
       LAMBDA x :
         With(EmitPhysicalRecord(
                LwAsserted(x, kBlockSize - x.lw.block_offset >= HeaderSize,
                           "kBlockSize - block_offset_ >= header_size"),
                FragmentType(begin, SLen(slice) - ptr = FragmentLength(x, slice, ptr)),
                Slice(slice, ptr, FragmentLength(x, slice, ptr))),
              LAMBDA y :
                IF y.st = OK /\ SLen(slice) - ptr - FragmentLength(x, slice, ptr) > 0
                THEN AsyncAddRecordLoop(y, slice, ptr + FragmentLength(x, slice, ptr), FALSE)
                ELSE y))

AsyncAddRecord(s, slice) ==
  Then(AsyncAddRecordLoop([s EXCEPT !.st = OK], slice, 0, TRUE),
       LAMBDA x : IF ~cfg.manual_flush THEN DestCalled(AsyncFlush(x), "AsyncFlush", <<>>)
                  ELSE x)

MaxAsyncOps == 2     \* operations on one writer when the tasks are among them

AsyncFlushOp ==
  /\ Usable
  /\ \E fail \in FailOne :
       Done(AsyncFlush(Start(fail)), "AsyncFlush", 0, FALSE, <<>>)
  /\ UNCHANGED <<cfg, passed, lw, recs>>

AsSyncOp ==
  /\ Usable
  /\ \E use_fsync \in BOOLEAN, fail \in FailOne :
       Done(AsSync(Start(fail), use_fsync), "AsSync", 0, use_fsync, <<>>)
  /\ UNCHANGED <<cfg, passed, lw, recs>>

AsyncAddRecordOp ==
  /\ LogUsable
  /\ \E n \in RecordSizes, fail \in LogFailOne :
       LET s == AsyncAddRecord(StartLog(fail), Data(Len(recs) + 1, n))
       IN /\ DoneLog(s, "AsyncAddRecord", n)
          /\ recs' = Append(recs, [id |-> Len(recs) + 1, n |-> n, st |-> s.st])
  /\ UNCHANGED cfg

NextAsync ==
  /\ hist.n < MaxAsyncOps
  /\ \/ cfg \notin LogConfigs /\ (Next \/ AsyncFlushOp \/ AsSyncOp)
     \/ cfg \in LogConfigs /\ (NextLog \/ AsyncAddRecordOp)

SpecAsync == InitWith(FwConfigs \cup LogConfigs) /\ [][NextAsync]_vars

\* sizes between the initial capacity and max_buffer_size_
MidSizes ==
  {n \in {cfg.cap0 + 2, cfg.max_buffer_size - 1} : cfg.cap0 < n /\ n < cfg.max_buffer_size}

\* an Append of one of these sizes
AppendMidOp ==
  /\ Usable
  /\ \E n \in MidSizes, with_crc \in HandoffChoices, fail \in FailOne :
       LET data == NewData(n)
           s == WFW_Append(Start(fail), data,
                           IF with_crc THEN Crc32cValue(data) ELSE <<>>)
       IN /\ Done(s, "Append", n, with_crc, data)
          /\ passed' = Cat(passed, data)
  /\ UNCHANGED <<cfg, lw, recs>>

\* the buffered configurations whose buffer can grow
GrowConfigs == {c \in FwConfigs : ~c.direct /\ c.cap0 < c.max_buffer_size}

NextGrow == Next \/ AppendMidOp

SpecGrow == InitWith(GrowConfigs) /\ [][NextGrow]_vars

BigCap == 2097152    \* a buffer that holds more than the 1 MiB that is not range-synced

\* the configurations that range-sync: the buffered ones with bytes_per_sync_ > 0, and
\* two with a buffer of BigCap bytes
SyncConfigs ==
  {c \in FwConfigs : c.bytes_per_sync > 0}
    \cup {[direct |-> FALSE, align |-> 1, cap0 |-> BigCap, max_buffer_size |-> BigCap,
           bytes_per_sync |-> kBytesAlignWhenSync, rl |-> FALSE, grants |-> <<>>,
           pdv |-> v, bdc |-> v, gen |-> TRUE, recycle |-> FALSE, manual_flush |-> FALSE,
           log_number |-> [hi |-> 0, lo |-> 0]] : v \in BOOLEAN}

SpecSync == InitWith(SyncConfigs) /\ [][Next]_vars

\* a file writer used directly, or a log writer over its file writer
NextAll == (cfg \notin LogConfigs /\ Next) \/ (cfg \in LogConfigs /\ NextLog)

SpecAll == InitWith(FwConfigs \cup LogConfigs) /\ [][NextAll]_vars

-----------------------------------------------------------------------------
(* Reading a log back: the physical records of a byte stream *)

IsHeader(h) ==
  /\ Len(h) = 3
  /\ h[1].k = "F" /\ h[1].off = 0 /\ h[1].n = 4
  /\ h[2].k = "N" /\ h[2].off = 0 /\ h[2].n = 2
  /\ h[3].k = "T"

TypeIn(h) == h[3].id[1]
LengthIn(h) == h[2].id[1] + 256 * h[2].id[2]
SizeOfHeader(t) == IF t < kRecyclableFullType THEN kHeaderSize ELSE kRecyclableHeaderSize
IsPayload(p) == \A i \in 1..Len(p) : p[i].k = "D"

\* the bytes [pos, end) of a block are whole physical records and then a trailer
RECURSIVE WholeRecords(_, _, _)

WholeRecordAt(stream, pos, end, h) ==
  /\ pos + SizeOfHeader(TypeIn(h)) + LengthIn(h) <= end
  /\ SizeOfHeader(TypeIn(h)) = HeaderSize
  /\ IsPayload(Slice(stream, pos + SizeOfHeader(TypeIn(h)), LengthIn(h)))
  /\ WholeRecords(stream, pos + SizeOfHeader(TypeIn(h)) + LengthIn(h), end)

WholeRecords(stream, pos, end) ==
  \/ pos = end
  \/ /\ pos < end
     /\ IF IsHeader(Slice(stream, pos, kHeaderSize))
        THEN WholeRecordAt(stream, pos, end, Slice(stream, pos, kHeaderSize))
        ELSE end - pos < HeaderSize /\ Slice(stream, pos, end - pos) = Zeros(end - pos)

CompletedBlocks(stream) == 0..((SLen(stream) \div kBlockSize) - 1)

NoPartial == [on |-> FALSE, data |-> <<>>]

IsFirst(t) == t \in {kFirstType, kRecyclableFirstType}
IsMiddle(t) == t \in {kMiddleType, kRecyclableMiddleType}
IsLast(t) == t \in {kLastType, kRecyclableLastType}
IsFull(t) == t \in {kFullType, kRecyclableFullType}

\* decoding block by block: skip the trailers, reassemble the fragments
RECURSIVE Decode(_, _, _, _)

DecodeRecord(stream, pos, t, payload, partial, out) ==
  Decode(stream, pos + SizeOfHeader(t) + SLen(payload),
         IF IsFirst(t) THEN [on |-> TRUE, data |-> payload]
         ELSE IF IsMiddle(t) THEN [on |-> partial.on, data |-> Cat(partial.data, payload)]
         ELSE NoPartial,
         IF IsFull(t) THEN Append(out, payload)
         ELSE IF IsLast(t) THEN Append(out, Cat(partial.data, payload))
         ELSE out)

DecodeHeader(stream, pos, h, partial, out) ==
  DecodeRecord(stream, pos, TypeIn(h),
               Slice(stream, pos + SizeOfHeader(TypeIn(h)), LengthIn(h)), partial, out)

Decode(stream, pos, partial, out) ==
  IF pos >= SLen(stream) THEN [records |-> out, clean |-> ~partial.on]
  ELSE IF kBlockSize - (pos % kBlockSize) < kHeaderSize
          \/ Slice(stream, pos, kHeaderSize) = Zeros(kHeaderSize)
       THEN Decode(stream, pos + kBlockSize - (pos % kBlockSize), partial, out)
       ELSE IF IsHeader(Slice(stream, pos, kHeaderSize))
            THEN DecodeHeader(stream, pos, Slice(stream, pos, kHeaderSize), partial, out)
            ELSE [records |-> out, clean |-> FALSE]

Submitted == [i \in 1..Len(recs) |-> Data(recs[i].id, recs[i].n)]

-----------------------------------------------------------------------------
(* Properties of the log writer *)

LastOk(op) == hist.last.op = op /\ hist.last.st = OK

RECURSIVE PayloadsOf(_)
PayloadsOf(frags) ==
  IF frags = <<>> THEN <<>> ELSE Cat(Head(frags).payload, PayloadsOf(Tail(frags)))

RECURSIVE LengthsOf(_)
LengthsOf(frags) ==
  IF frags = <<>> THEN 0 ELSE SLen(Head(frags).payload) + LengthsOf(Tail(frags))

FullOrFirstMiddleLast(frags) ==
  IF Len(frags) = 1
  THEN frags[1].t = (IF cfg.recycle THEN kRecyclableFullType ELSE kFullType)
  ELSE /\ Len(frags) >= 2
       /\ frags[1].t = (IF cfg.recycle THEN kRecyclableFirstType ELSE kFirstType)
       /\ frags[Len(frags)].t = (IF cfg.recycle THEN kRecyclableLastType ELSE kLastType)
       /\ \A i \in 2..(Len(frags) - 1) :
            frags[i].t = (IF cfg.recycle THEN kRecyclableMiddleType ELSE kMiddleType)

\* C1: an AddRecord of a record of length L that returns OK emits physical records
\* whose payload lengths sum to L, whose payloads concatenated in emission order are
\* the record, and whose types are FULL or FIRST MIDDLE* LAST (the recyclable
\* variants exactly when recycling is on); for L = 0 it emits exactly one zero-length
\* FULL record.
C1_Fragments ==
  LastOk("AddRecord") =>
    /\ LengthsOf(lw.frags) = recs[Len(recs)].n
    /\ PayloadsOf(lw.frags) = Data(recs[Len(recs)].id, recs[Len(recs)].n)
    /\ FullOrFirstMiddleLast(lw.frags)
    /\ (recs[Len(recs)].n = 0 =>
          /\ Len(lw.frags) = 1
          /\ lw.frags[1].payload = <<>>
          /\ IsFull(lw.frags[1].t))

\* an AddRecord returned OK after emitting FIRST, MIDDLE and LAST
C1_Witness == LastOk("AddRecord") /\ Len(lw.frags) >= 3

\* C2: after successful calls only, every completed block of the bytes given to the
\* file writer is whole physical records (header and payload) followed by a trailer
\* of fewer than header_size zero bytes, kBlockSize bytes in all: no physical record
\* straddles a block boundary.
C2_Blocks ==
  hist.allok =>
    \A b \in CompletedBlocks(passed) :
      WholeRecords(passed, b * kBlockSize, (b + 1) * kBlockSize)

\* a block was closed by a trailer and two more blocks were completed after it
C2_Witness ==
  /\ hist.allok
  /\ SLen(passed) > 3 * kBlockSize
  /\ \E i \in 1..Len(lw.fwcalls) : lw.fwcalls[i].data = Zeros(3)

\* C3: when every call succeeded, decoding the bytes given to the file writer block by
\* block (skipping the trailers, reassembling FULL and FIRST MIDDLE* LAST) recovers
\* exactly the records passed to AddRecord, in order, the empty ones included.
C3_RoundTrip ==
  hist.allok => Decode(passed, 0, NoPartial, <<>>) = [records |-> Submitted, clean |-> TRUE]

\* three records were added, an empty one and one that spans blocks among them
C3_Witness ==
  /\ hist.allok
  /\ Len(recs) = 3
  /\ \E i, j \in 1..3 : recs[i].n = 0 /\ recs[j].n > kBlockSize

-----------------------------------------------------------------------------
(* Properties of the file writer *)

\* the bytes [lo, hi) of the object of run r are in the stream
RECURSIVE Covers(_, _, _, _)
Covers(stream, r, lo, hi) ==
  \/ lo >= hi
  \/ \E i \in 1..Len(stream) :
       /\ stream[i].k = r.k
       /\ stream[i].id = r.id
       /\ stream[i].off <= lo
       /\ lo < stream[i].off + stream[i].n
       /\ Covers(stream, r, stream[i].off + stream[i].n, hi)

\* every byte of bytes is in the stream
Handed(bytes, stream) ==
  \A j \in 1..Len(bytes) : Covers(stream, bytes[j], bytes[j].off, bytes[j].off + bytes[j].n)

CallsOf(ops) == {i \in 1..Len(calls) : calls[i].op \in ops}

\* C4: in buffered mode, when every call of a sequence of Append calls returned OK,
\* after a final Flush that returned OK filesize is the sum of the sizes and the bytes
\* handed to the sink are the appended payloads in order, for every capacity,
\* max_buffer_size and sequence of grants of the rate limiter.
C4_AppendsThenFlush ==
  (~cfg.direct /\ hist.allok /\ hist.ops \subseteq {"Append", "Flush"} /\ LastOk("Flush")) =>
    /\ fw.filesize = SLen(passed)
    /\ sink.data = passed

\* two appends fill the buffer and the flush writes it in the parts the rate limiter
\* grants
C4_Witness ==
  /\ ~cfg.direct /\ cfg.rl
  /\ hist.allok /\ hist.ops = {"Append", "Flush"} /\ LastOk("Flush")
  /\ hist.n = 3
  /\ SLen(passed) >= cfg.cap0
  /\ Cardinality(CallsOf({"Append"})) >= 2

\* the bytes of the stream are at strictly increasing positions of what was passed
InCallOrder(stream) ==
  \A i \in 1..(Len(stream) - 1) : stream[i].off + stream[i].n <= stream[i + 1].off

SinkFlushes == CallsOf({"Flush"})

\* C6: whenever the sink's Flush is invoked, every byte of the calls of Append and Pad
\* that returned OK before has been handed to the sink: in buffered mode the buffer is
\* empty, in direct I/O mode every buffered byte has been written by a positioned
\* append, whatever pending_sync_ is.
C6_FlushAfterWrites ==
  \A i \in SinkFlushes :
    /\ Handed(hist.last.acked, calls[i].sdata)
    /\ ~cfg.direct => calls[i].buf = <<>>
    /\ cfg.direct => Slice(calls[i].sdata, calls[i].nwo, SLen(calls[i].buf)) = calls[i].buf

\* the part of C6 about the calls that returned: their bytes are with the sink when
\* its Flush is invoked, and in buffered mode the buffer is empty
C6_AckedBytesHanded ==
  \A i \in SinkFlushes :
    /\ Handed(hist.last.acked, calls[i].sdata)
    /\ ~cfg.direct => calls[i].buf = <<>>

\* C7: every RangeSync(A, len) that Flush issues covers only bytes the sink has
\* accepted: A + len is at most the number of bytes the sink holds at the call and at
\* most filesize minus the reserve of 1 MiB.
C7_RangeSyncCovered ==
  \A i \in CallsOf({"RangeSync"}) :
    /\ calls[i].off + calls[i].n <= SLen(calls[i].sdata)
    /\ calls[i].off + calls[i].n <= calls[i].filesize - kBytesNotSyncRange

\* a flush issued a RangeSync of a non-empty range
C7_Witness == \E i \in CallsOf({"RangeSync"}) : calls[i].n > 0

SinkSyncs == CallsOf({"Sync", "Fsync"})

\* C8: a Sync that returns OK leaves pending_sync_ false; it flushes first and then
\* calls the sink's Fsync (use_fsync) or Sync (otherwise) exactly when the writer is
\* not in direct I/O mode and pending_sync_ was true; a Sync that does not return OK
\* leaves pending_sync_ as it was.
C8_Sync ==
  hist.last.op = "Sync" =>
    /\ hist.last.st = OK => ~fw.pending
    /\ hist.last.st = OK =>
         (SinkSyncs # {} <=> (~cfg.direct /\ hist.last.pre.pending))
    /\ \A i \in SinkSyncs :
         /\ i = Len(calls)
         /\ ~cfg.direct /\ hist.last.pre.pending
         /\ calls[i].op = (IF hist.last.arg THEN "Fsync" ELSE "Sync")
         /\ \E j \in 1..(i - 1) : calls[j].op = "Flush" /\ calls[j].ok
    /\ hist.last.st # OK => fw.pending = hist.last.pre.pending

\* a Sync with use_fsync wrote the buffer, flushed and called the sink's Fsync
C8_Witness ==
  /\ LastOk("Sync") /\ hist.last.arg
  /\ ~cfg.direct /\ hist.last.pre.pending
  /\ Len(calls) >= 3

\* C9: pending_sync_ is true exactly when Append or Pad was called since the last
\* successful Sync: whenever it is false, every byte passed to Append and Pad has been
\* handed to the sink and, in buffered mode, a Sync or Fsync of the sink succeeded
\* after the last of them was handed over.
C9_PendingSync ==
  (~fw.pending /\ ~fw.hung) =>
    /\ Handed(passed, sink.data)
    /\ ~cfg.direct => Handed(passed, sink.synced)

FailedCalls == {i \in 1..Len(calls) : ~calls[i].ok}

\* the status of the earliest sub-step that failed
EarliestFailure ==
  IF FailedCalls = {} THEN OK
  ELSE IOError(calls[CHOOSE i \in FailedCalls : \A j \in FailedCalls : i <= j].op)

ClosedNow == hist.last.op = "Close" /\ hist.last.pre.open

\* C10 as stated: Close attempts all its sub-steps (Flush; in direct I/O mode Truncate
\* and then Fsync; the sink's Close; the release of the handle) whatever the earlier
\* ones returned, and returns the status of the earliest that failed, or OK.
C10_AllSubSteps ==
  ClosedNow =>
    /\ cfg.direct => CallsOf({"Truncate"}) # {} /\ CallsOf({"Fsync"}) # {}
    /\ CallsOf({"Close"}) # {}
    /\ ~fw.open
    /\ hist.last.st = EarliestFailure

\* C10 amended: Close attempts Flush, in direct I/O mode Truncate, the sink's Close and
\* the release of the handle whatever the earlier sub-steps returned, but Fsync only
\* when Truncate succeeded; the sub-steps run in this order; it returns the status of
\* the earliest that failed, or OK.
C10_SubStepsFsyncAfterTruncate ==
  ClosedNow =>
    /\ cfg.direct =>
         /\ Cardinality(CallsOf({"Truncate"})) = 1
         /\ \A i \in CallsOf({"Truncate"}) :
              /\ calls[i].n = hist.last.pre.filesize
              /\ CallsOf({"Fsync"}) = (IF calls[i].ok THEN {i + 1} ELSE {})
    /\ ~cfg.direct => CallsOf({"Truncate", "Fsync"}) = {}
    /\ CallsOf({"Close"}) = {Len(calls)}
    /\ ~fw.open
    /\ hist.last.st = EarliestFailure

\* Truncate and the sink's Close failed: Fsync was skipped, the first status returned
C10_Witness ==
  /\ ClosedNow /\ cfg.direct
  /\ \E i \in CallsOf({"Truncate"}) : ~calls[i].ok
  /\ ~calls[Len(calls)].ok
  /\ hist.last.st = IOError("Truncate")

-----------------------------------------------------------------------------
(* Close and the whole-file checksum *)

\* a Close on a writer whose handle was released before
ClosedAgain == hist.last.op = "Close" /\ ~hist.last.pre.open

\* C11: once a first Close has returned, with OK or with an error, the handle of the
\* sink is released, and every later Close returns OK, calls nothing on the sink and
\* changes nothing in the writer; the log writer's Close forwards to the file writer
\* once, drops it, and does nothing afterwards.
C11_CloseIdempotent ==
  /\ hist.last.op = "Close" => ~fw.open
  /\ ClosedAgain => hist.last.st = OK /\ calls = <<>> /\ fw = hist.last.pre
  /\ (cfg \in LogConfigs /\ hist.last.op = "Close") =>
       /\ ~lw.open
       /\ Len(lw.fwcalls) = (IF hist.last.pre.open THEN 1 ELSE 0)

\* a second Close after a first Close that returned an error
C11_Witness == ClosedAgain /\ sink.closed /\ fw.nfinal = 0

\* a log writer was closed twice
C11_WitnessLog == ClosedAgain /\ cfg \in LogConfigs

\* C12 as stated: Finalize is called at most once, only inside Close, and exactly once
\* when a Close returns OK; a Close that returns an error does not finalize;
\* checksum_finalized_ is true only after a call of Finalize.
C12_FinalizeOnOk ==
  /\ fw.nfinal <= 1
  /\ hist.last.op # "Close" => fw.nfinal = hist.last.pre.nfinal
  /\ (hist.last.op = "Close" /\ hist.last.st = OK) => fw.nfinal = 1
  /\ (hist.last.op = "Close" /\ hist.last.st # OK) => fw.nfinal = hist.last.pre.nfinal
  /\ fw.finalized => fw.nfinal >= 1

\* C12 amended: Finalize is called at most once, only inside a Close that found the
\* handle not yet released, and exactly when that Close returns OK; a Close that
\* returns an error does not finalize, and neither does a later Close, which returns
\* OK on the released handle; checksum_finalized_ is true exactly after Finalize.
C12_FinalizeOnFirstClose ==
  /\ fw.nfinal <= 1
  /\ hist.last.op # "Close" => fw.nfinal = hist.last.pre.nfinal
  /\ ClosedNow => fw.nfinal = (IF hist.last.st = OK THEN 1 ELSE 0)
  /\ ClosedNow => hist.last.pre.nfinal = 0
  /\ ClosedAgain => fw.nfinal = hist.last.pre.nfinal
  /\ fw.finalized <=> fw.nfinal = 1

\* a Close that wrote the buffer returned OK and finalized the checksum
C12_Witness == ClosedNow /\ hist.last.st = OK /\ fw.nfinal = 1 /\ Len(calls) >= 3

-----------------------------------------------------------------------------
(* Direct I/O *)

\* C13: in direct I/O mode, in every state between operations (after calls that
\* returned an error too), next_write_offset_ is a multiple of the alignment and
\* filesize_ >= next_write_offset_ - alignment.
C13_DirectOffsets ==
  cfg.direct =>
    /\ fw.nwo % cfg.align = 0
    /\ fw.filesize >= fw.nwo - cfg.align

\* the part of C13 about the alignment alone
C13_OffsetAligned == cfg.direct => fw.nwo % cfg.align = 0

PositionedAppends == CallsOf({"PositionedAppend"})

C15_DirectClose ==
  (cfg.direct /\ hist.allok /\ ClosedNow) =>
    /\ fw.filesize = SLen(passed)
    /\ SLen(sink.data) = fw.filesize
    /\ sink.data = passed
    /\ Len(calls) >= 4
    /\ calls[Len(calls) - 3].op = "Flush"
    /\ calls[Len(calls) - 2].op = "Truncate" /\ calls[Len(calls) - 2].n = fw.filesize
    /\ calls[Len(calls) - 1].op = "Fsync"
    /\ calls[Len(calls)].op = "Close"
    /\ \A i \in 1..(Len(calls) - 4) : calls[i].op = "PositionedAppend"

\* data and padding that end inside a page were written and the file was closed
C15_Witness ==
  /\ cfg.direct /\ hist.allok /\ ClosedNow /\ hist.n = 3
  /\ hist.ops = {"Append", "Pad", "Close"}
  /\ SLen(passed) % cfg.align # 0
  /\ PositionedAppends # {}

-----------------------------------------------------------------------------
(* Checksums *)

\* C16: with perform_data_verification_ and buffered_data_with_checksum_, whenever
\* Append, Pad, Flush or Sync completes, with OK or with an error,
\* buffered_data_crc32c_checksum_ is the CRC32C of exactly the bytes in the buffer
\* (0 when it is empty).
C16_RunningCrc ==
  (Checksummed /\ hist.last.op \in {"Append", "Pad", "Flush", "Sync"} /\ ~fw.hung) =>
    fw.crc = Crc32cValue(Buf(fw))

SinkWrites == CallsOf({"Append", "PositionedAppend"})

\* C17: with perform_data_verification_, every Append and PositionedAppend of the sink
\* carries a checksum that is the CRC32C of exactly the bytes passed in that call, in
\* the four write drivers and after any calls of Append, Pad and Flush.
C17_HandoffChecksum ==
  cfg.pdv =>
    \A i \in SinkWrites : calls[i].hascks /\ calls[i].cks = Crc32cValue(calls[i].data)

-----------------------------------------------------------------------------
(* SyncWithoutFlush *)

\* C18: SyncWithoutFlush returns NotSupported and calls nothing on the sink when the
\* sink does not report a thread-safe sync; otherwise it calls the sink's Fsync
\* (use_fsync) or Sync exactly once and returns its status; in both cases the buffer,
\* filesize_, next_write_offset_, last_sync_size_ and pending_sync_ are as before
\* (pending_sync_ is not cleared on success either).
C18_SyncWithoutFlush ==
  hist.last.op = "SyncWithoutFlush" =>
    /\ fw = hist.last.pre
    /\ hist.last.n = 0 => hist.last.st = "NotSupported" /\ calls = <<>>
    /\ hist.last.n = 1 =>
         /\ Len(calls) = 1
         /\ calls[1].op = (IF hist.last.arg THEN "Fsync" ELSE "Sync")
         /\ hist.last.st = (IF calls[1].ok THEN OK ELSE IOError(calls[1].op))

\* a SyncWithoutFlush returned OK on a writer with unflushed bytes and left them there
C18_Witness ==
  /\ hist.last.op = "SyncWithoutFlush" /\ hist.last.n = 1 /\ hist.last.st = OK
  /\ fw.pending /\ fw.cur > 0

\* the Append that ran step by step ended as the Append that ran alone ends
SameAs(t, alone) ==
  /\ t.s.fw = alone.fw
  /\ t.s.sink.data = alone.sink.data
  /\ t.s.calls = alone.calls
  /\ t.s.st = alone.st

\* C19: SyncWithoutFlush may run while an Append is in progress: wherever it runs
\* between the steps of the Append (the flushes inside it included), the writer
\* (buffer, filesize_, pending_sync_, offsets) and the bytes handed to the sink are in
\* the end what they are when the Append runs alone.
C19_SyncDuringAppend ==
  task.pc = "done" => SameAs(task, WFW_Append(task.from, task.data, task.crc))

\* the sink's Sync succeeded between two writes of one Append
C19_Witness ==
  /\ task.pc = "done" /\ task.swf = OK
  /\ task.s.sink.synced # <<>>
  /\ task.s.sink.synced # task.s.sink.data
  /\ task.s.sink.synced # task.from.sink.data

-----------------------------------------------------------------------------
(* The task-returning variants against the blocking ones *)

\* the step ended as the blocking operation, which ends in b, ends
AsBlocking(b) ==
  /\ fw' = b.fw
  /\ sink' = b.sink
  /\ calls' = b.calls
  /\ hist'.last.st = b.st

\* the same for the log writer, whose last call is AsyncFlush, not Flush
AsBlockingLog(b) ==
  /\ AsBlocking(b)
  /\ lw'.block_offset = b.lw.block_offset
  /\ lw'.frags = b.lw.frags
  /\ lw'.asserts = b.lw.asserts
  /\ passed' = b.passed

\* C20: from the same state and with the same answers of the sink, AsyncFlush, AsSync
\* and AsyncAddRecord (and with them the task-returning write drivers) make the same
\* sink calls with the same arguments, return the same status and leave the same writer
\* (buffer, filesize_, next_write_offset_, last_sync_size_, pending_sync_, running
\* checksum, block_offset_) as Flush, Sync and AddRecord.
C20_AsyncAsBlocking ==
  [][/\ hist'.last.op = "AsyncFlush" =>
          \E fail \in FailOne : AsBlocking(Flush(Start(fail)))
     /\ hist'.last.op = "AsSync" =>
          \E fail \in FailOne : AsBlocking(Sync(Start(fail), hist'.last.arg))
     /\ hist'.last.op = "AsyncAddRecord" =>
          \E fail \in LogFailOne :
            AsBlockingLog(AddRecord(StartLog(fail), Data(Len(recs) + 1, hist'.last.n)))]_vars

\* an AsSync wrote the buffer in two parts, flushed and synced
C20_Witness ==
  /\ hist.last.op = "AsSync" /\ hist.last.st = OK
  /\ Len(calls) >= 4
  /\ hist.last.pre.pending /\ ~fw.pending

\* an AsyncAddRecord emitted three fragments and flushed
C20_WitnessLog ==
  /\ hist.last.op = "AsyncAddRecord" /\ hist.last.st = OK
  /\ Len(lw.frags) >= 3

-----------------------------------------------------------------------------
(* The assertions and the header of the log writer *)

\* C21: whatever the calls before returned, with or without recycling, no assertion of
\* AddRecord and EmitPhysicalRecord fails: leftover >= 0, kBlockSize - block_offset_ >=
\* header_size after the switch of block, n <= 0xffff and block_offset_ + header_size +
\* n <= kBlockSize at every emit; every fragment emitted fits in two bytes and, with
\* its header, in a block.
C21_AssertionsHold ==
  /\ lw.asserts = {}
  /\ \A i \in 1..Len(lw.frags) :
       /\ SLen(lw.frags[i].payload) <= 65535
       /\ HeaderSize + SLen(lw.frags[i].payload) <= kBlockSize

\* after a call that failed, an AddRecord filled a trailer and emitted three fragments
C21_Witness ==
  /\ ~hist.allok /\ LastOk("AddRecord")
  /\ Len(lw.frags) >= 3
  /\ \E i \in 1..Len(lw.fwcalls) :
       lw.fwcalls[i].data # <<>> /\ lw.fwcalls[i].data[1].k = "Z"

\* C22 as stated: between the calls of AddRecord, 0 <= block_offset_ < kBlockSize.
C22_BlockOffsetBelow == 0 <= lw.block_offset /\ lw.block_offset < kBlockSize

\* C22: between the calls of AddRecord, 0 <= block_offset_ <= kBlockSize; it is
\* kBlockSize after a physical record that ends where the block ends.
C22_BlockOffsetWithin == 0 <= lw.block_offset /\ lw.block_offset <= kBlockSize

\* an AddRecord returned OK with block_offset_ = kBlockSize
C22_Witness == LastOk("AddRecord") /\ lw.block_offset = kBlockSize

\* crc32c::Unmask, the inverse of crc32c::Mask
Unmask(v) == v.masked

\* the calls of Append that passed a header, in order
HeaderCalls ==
  SelectSeq(lw.fwcalls, LAMBDA c : c.op = "Append" /\ c.data # <<>> /\ c.data[1].k = "F")

\* the four bytes at pos of h are the little-endian form of one 32-bit value
Fixed32At(h, pos) ==
  /\ Len(Slice(h, pos, 4)) = 1
  /\ Slice(h, pos, 4)[1].k = "F"
  /\ Slice(h, pos, 4)[1].off = 0 /\ Slice(h, pos, 4)[1].n = 4

\* h is the header of a physical record of type t with this payload
WellFormedHeader(h, t, payload) ==
  /\ SLen(h) = SizeOfHeader(t)
  /\ Len(Slice(h, 4, 2)) = 1
  /\ Slice(h, 4, 2)[1].k = "N" /\ Slice(h, 4, 2)[1].off = 0 /\ Slice(h, 4, 2)[1].n = 2
  /\ Slice(h, 4, 2)[1].id[1] \in 0..255 /\ Slice(h, 4, 2)[1].id[2] \in 0..255
  /\ Slice(h, 4, 2)[1].id[1] + 256 * Slice(h, 4, 2)[1].id[2] = SLen(payload)
  /\ Slice(h, 6, 1) = <<Run("T", <<t>>, 0, 1)>>
  /\ t >= kRecyclableFullType =>
       /\ Fixed32At(h, 7)
       /\ Slice(h, 7, 4)[1].id = <<[u32 |-> cfg.log_number.lo]>>
  /\ Fixed32At(h, 0)
  /\ Unmask(Slice(h, 0, 4)[1].id[1])
       = Crc32cValue(Cat(Cat(<<Run("T", <<t>>, 0, 1)>>,
                             IF t >= kRecyclableFullType THEN Slice(h, 7, 4) ELSE <<>>),
                         payload))

\* C23: the header of every physical record is well-formed: bytes 4..5 are the length
\* of the payload, 16 bits little-endian; byte 6 is the type; in the recyclable format
\* bytes 7..10 are the low 32 bits of the log number, little-endian; bytes 0..3
\* unmasked are the CRC32C of the type byte, the log-number bytes (recyclable format)
\* and the payload.
C23_HeaderWellFormed ==
  /\ Len(HeaderCalls) = Len(lw.frags)
  /\ \A i \in 1..Len(lw.frags) :
       WellFormedHeader(HeaderCalls[i].data, lw.frags[i].t, lw.frags[i].payload)

\* a recycling writer emitted a fragment whose length needs both bytes, and another
C23_Witness ==
  /\ cfg.recycle /\ Len(lw.frags) >= 2
  /\ \E i \in 1..Len(lw.frags) :
       SLen(lw.frags[i].payload) > 256 /\ SLen(lw.frags[i].payload) % 256 # 0

\* C24: an AddRecord that returns OK with manual_flush_ off has called Flush on the
\* file writer once, after the last Append: the buffer of the (buffered) file writer
\* is empty and every byte of the record is with the sink.  With manual_flush_ on,
\* AddRecord calls only Append on the file writer.
C24_FlushAfterAdd ==
  /\ (LastOk("AddRecord") /\ ~cfg.manual_flush) =>
       /\ lw.fwcalls # <<>>
       /\ \A i \in 1..Len(lw.fwcalls) :
            lw.fwcalls[i].op = (IF i = Len(lw.fwcalls) THEN "Flush" ELSE "Append")
       /\ (~cfg.direct => fw.cur = 0)
       /\ Handed(Data(recs[Len(recs)].id, recs[Len(recs)].n), sink.data)
  /\ (hist.last.op = "AddRecord" /\ cfg.manual_flush) =>
       \A i \in 1..Len(lw.fwcalls) : lw.fwcalls[i].op = "Append"

\* after a call that failed, an AddRecord of three fragments returned OK and flushed
C24_Witness ==
  /\ ~cfg.manual_flush /\ ~hist.allok /\ LastOk("AddRecord")
  /\ Len(lw.frags) >= 3

\* with manual_flush_ on an AddRecord returned OK with bytes left in the buffer
C24_WitnessManual ==
  /\ cfg.manual_flush /\ LastOk("AddRecord")
  /\ fw.cur > 0

-----------------------------------------------------------------------------
(* Range syncs *)

\* last_sync_size_ after the i-th sink call of the handler
LssAfter(i) == IF i < Len(calls) THEN calls[i + 1].lss ELSE fw.lss

\* the conditions under which the claim says Flush issues a RangeSync, for a file of
\* this size synced up to lss
RangeSyncDue(filesize, lss) ==
  /\ ~cfg.direct
  /\ cfg.bytes_per_sync > 0
  /\ filesize > 1024 * 1024
  /\ ((filesize - 1024 * 1024) - ((filesize - 1024 * 1024) % 4096)) - lss
       >= cfg.bytes_per_sync

C25_WitnessNotDue ==
  /\ cfg.bytes_per_sync > 0 /\ fw.filesize > 1024 * 1024
  /\ LastOk("Flush") /\ CallsOf({"RangeSync"}) = {}

\* C26: last_sync_size_ <= filesize_ in every state; last_sync_size_ never decreases,
\* neither between the sink calls of a handler nor from one handler to the next; the
\* assertion offset_sync_to >= last_sync_size_ of Flush never fails, after failed
\* appends and failed range syncs too.
C26_LastSyncSize ==
  /\ fw.lss <= fw.filesize
  /\ hist.last.pre.lss <= fw.lss
  /\ \A i \in 1..Len(calls) :
       /\ hist.last.pre.lss <= calls[i].lss
       /\ calls[i].lss <= LssAfter(i)
       /\ calls[i].lss <= calls[i].filesize
  /\ "offset_sync_to >= last_sync_size_" \notin fw.asserts

\* after a call that failed, a Flush reached the range sync a second time, and that
\* range sync failed
C26_Witness ==
  \E i \in CallsOf({"RangeSync"}) :
    /\ ~calls[i].ok
    /\ calls[i].off > 0
    /\ fw.lss = calls[i].off + calls[i].n

-----------------------------------------------------------------------------
(* Direct writes *)

\* the handler returned because a positioned append failed
FailedDirect ==
  /\ hist.last.op # "Close"
  /\ calls # <<>>
  /\ calls[Len(calls)].op = "PositionedAppend" /\ ~calls[Len(calls)].ok

\* the index of the last sink Flush of the handler, 0 if there is none: the positioned
\* appends after it are those of the driver that failed
LastSinkFlush == IF SinkFlushes = {} THEN 0 ELSE CHOOSE i \in SinkFlushes : \A j \in SinkFlushes : j <= i

\* run to its end, r writes what the handler was writing from its call g + 1 on: the
\* padded buffer e.buf at e.nwo, of which each of those calls wrote a part
Rewrites(r, g, e) ==
  /\ r.st = OK
  /\ r.calls[1].op = "PositionedAppend" /\ r.calls[1].off = e.nwo
  /\ Slice(r.sink.data, e.nwo, SLen(e.buf)) = e.buf
  /\ \A i \in (g + 1)..Len(calls) :
       /\ calls[i].op = "PositionedAppend"
       /\ calls[i].data = Slice(e.buf, calls[i].off - e.nwo, calls[i].n)

\* C27: when a positioned append fails in WriteDirect or WriteDirectWithChecksum, the
\* error is returned, next_write_offset_ is what it was, and the buffer is what it was
\* before the call: its size is restored and its bytes are unchanged, the zero padding
\* being dropped (the padded buffer of the failed call is the buffer plus zeros); a
\* Flush called next writes the same bytes at the same offsets.
C27_DirectFailure ==
  FailedDirect =>
    /\ hist.last.st = IOError("PositionedAppend")
    /\ fw.nwo = calls[Len(calls)].nwo
    /\ calls[Len(calls)].buf
         = Cat(Buf(fw), Zeros(Roundup(fw.cur, cfg.align) - fw.cur))
    /\ \A i \in 1..Len(Buf(fw)) : Buf(fw)[i].k # "Z"
    /\ (hist.last.op \in {"Flush", "Sync"} =>
          /\ fw.cur = hist.last.pre.cur
          /\ Buf(fw) = Buf(hist.last.pre)
          /\ fw.nwo = hist.last.pre.nwo)
    /\ Rewrites(Flush(Start({})), LastSinkFlush, calls[Len(calls)])

\* a Flush of a buffer that is not whole pages failed at its positioned append
C27_Witness ==
  /\ FailedDirect /\ hist.last.op = "Flush"
  /\ fw.cur % cfg.align # 0

\* a rate-limited write failed after a page was written
C27_WitnessChunks ==
  /\ FailedDirect /\ cfg.rl
  /\ Len(calls) >= 2 /\ calls[Len(calls) - 1].op = "PositionedAppend"

\* the same for WriteDirectWithChecksum, inside an Append
C27_WitnessChecksum ==
  /\ FailedDirect /\ Checksummed /\ hist.last.op = "Append"

\* a Flush or Sync in direct I/O mode found bytes to write and wrote them
WroteDirect ==
  /\ cfg.direct /\ hist.last.op \in {"Flush", "Sync"}
  /\ hist.last.pre.cur > 0 /\ hist.last.pre.pending
  /\ SinkFlushes # {}

\* the part of C28 about the driver: a WriteDirect (or WriteDirectWithChecksum) that
\* succeeds on a buffer of c bytes writes the buffer padded with zeros at
\* next_write_offset_, advances next_write_offset_ by c rounded down to the alignment,
\* and leaves the bytes [file_advance, c) at the start of the buffer.
C28_WriteDirect ==
  WroteDirect =>
    \A f \in SinkFlushes :
      /\ \A i \in 1..(f - 1) :
           /\ calls[i].op = "PositionedAppend" /\ calls[i].ok
           /\ calls[i].off = (IF i = 1 THEN hist.last.pre.nwo
                                       ELSE calls[i - 1].off + calls[i - 1].n)
      /\ Slice(calls[f].sdata, hist.last.pre.nwo,
               Roundup(hist.last.pre.cur, cfg.align))
           = Cat(Buf(hist.last.pre),
                 Zeros(Roundup(hist.last.pre.cur, cfg.align) - hist.last.pre.cur))
      /\ calls[f].nwo
           = hist.last.pre.nwo + TruncateToPageBoundary(cfg.align, hist.last.pre.cur)
      /\ calls[f].buf
           = Slice(Buf(hist.last.pre),
                   TruncateToPageBoundary(cfg.align, hist.last.pre.cur),
                   hist.last.pre.cur
                     - TruncateToPageBoundary(cfg.align, hist.last.pre.cur))

\* C28: a successful WriteDirect writes the padded buffer at next_write_offset_,
\* advances next_write_offset_ by file_advance and leaves the tail at the start of the
\* buffer; so after every Flush that succeeds in direct I/O mode (its sink Flush
\* returned OK) the buffer holds less than one alignment unit.
C28_DirectFlush ==
  /\ C28_WriteDirect
  /\ cfg.direct =>
       \A i \in SinkFlushes : calls[i].ok => SLen(calls[i].buf) < cfg.align

\* a Flush wrote two pages and a part of a third in direct I/O mode
C28_Witness ==
  /\ WroteDirect /\ LastOk("Flush")
  /\ hist.last.pre.cur > cfg.align /\ fw.cur > 0

-----------------------------------------------------------------------------
(* Append: growth of the buffer, filesize_, pending_sync_ *)

\* the bytes passed to the last Append
LastData == Slice(passed, SLen(passed) - hist.last.n, hist.last.n)

\* the last Append left its bytes in the buffer and made no sink call with them
Staged ==
  /\ fw.cur >= hist.last.n
  /\ Slice(Buf(fw), fw.cur - hist.last.n, hist.last.n) = LastData

\* the last Append flushed what was in the buffer and then gave its bytes to the sink
\* from the caller's memory, the buffer staying empty
Bypassed ==
  /\ fw.cur = 0
  /\ hist.last.pre.cur > 0 => LastSinkFlush > 0
  /\ LastSinkFlush < Len(calls)
  /\ calls[Len(calls)].op = "Append"
  /\ \A i \in (LastSinkFlush + 1)..Len(calls) :
       \/ calls[i].op = "RangeSync"
       \/ calls[i].op = "Append" /\ calls[i].buf = <<>>
  /\ Slice(sink.data, SLen(sink.data) - hist.last.n, hist.last.n) = LastData

\* an Append returned OK on a buffered writer whose buffer had its initial capacity
GrowthCase ==
  /\ ~cfg.direct /\ LastOk("Append")
  /\ hist.last.pre.cap = cfg.cap0

\* C29 as stated: in buffered mode an Append of more than the initial capacity and less
\* than max_buffer_size_ enlarges the buffer and leaves its bytes there, whatever is
\* already in the buffer; an Append of more than max_buffer_size_ flushes the buffer and
\* writes its bytes to the sink past the buffer.
C29_GrowthBoundary ==
  GrowthCase =>
    /\ (cfg.cap0 < hist.last.n /\ hist.last.n < cfg.max_buffer_size) =>
         fw.cap > hist.last.pre.cap /\ Staged
    /\ hist.last.n > cfg.max_buffer_size => Bypassed

\* C29: in buffered mode an Append of more than the initial capacity and less than
\* max_buffer_size_ enlarges the buffer, leaves its bytes there and calls the sink not at
\* all when the bytes fit with what the buffer holds (current size + size <=
\* max_buffer_size_); when they do not, the buffer keeps its capacity and is flushed,
\* and the bytes are written past it.  An Append of more than max_buffer_size_ flushes
\* the buffer and writes its bytes past it.
C29_GrowthWhenFits ==
  GrowthCase =>
    /\ (cfg.cap0 < hist.last.n /\ hist.last.n < cfg.max_buffer_size) =>
         IF hist.last.pre.cur + hist.last.n <= cfg.max_buffer_size
         THEN /\ fw.cap > hist.last.pre.cap /\ fw.cap <= cfg.max_buffer_size
              /\ Staged
              /\ calls = <<>>
              /\ Buf(fw) = Cat(Buf(hist.last.pre), LastData)
         ELSE /\ fw.cap = hist.last.pre.cap
              /\ Bypassed
    /\ hist.last.n > cfg.max_buffer_size => Bypassed /\ fw.cap = hist.last.pre.cap

\* an Append between the two sizes enlarged a buffer that held bytes
C29_Witness ==
  /\ GrowthCase
  /\ cfg.cap0 < hist.last.n /\ hist.last.n < cfg.max_buffer_size
  /\ hist.last.pre.cur > 0 /\ fw.cap > hist.last.pre.cap

\* an Append between the two sizes was written past the buffer
C29_WitnessBypass ==
  /\ GrowthCase
  /\ cfg.cap0 < hist.last.n /\ hist.last.n < cfg.max_buffer_size
  /\ Bypassed


\* C30: an Append that returns OK increases filesize by exactly the size of the data,
\* an Append that returns another status leaves filesize as it was, and in both
\* cases pending_sync is true on return.
C30_AppendFilesize ==
  hist.last.op = "Append" =>
    /\ fw.pending
    /\ hist.last.st = OK => fw.filesize = hist.last.pre.filesize + hist.last.n
    /\ hist.last.st # OK => fw.filesize = hist.last.pre.filesize

\* an Append of a non-empty payload fails at the sink after an earlier Append and a
\* Sync that cleared pending_sync
C30_Witness ==
  /\ hist.last.op = "Append" /\ hist.last.st # OK /\ hist.last.n > 0
  /\ hist.last.pre.filesize > 0 /\ ~hist.last.pre.pending
  /\ Len(calls) > 0 /\ ~calls[Len(calls)].ok

\* an Append of a non-empty payload returns OK on a writer whose pending_sync was
\* false
C30_WitnessOk ==
  /\ LastOk("Append") /\ hist.last.n > 0
  /\ hist.last.pre.filesize > 0 /\ ~hist.last.pre.pending


\* the bytes of the file as the writer holds them: what the sink has (up to
\* next_write_offset_ with direct I/O) followed by the buffer
Written(w, k) == Cat(IF cfg.direct THEN Take(k.data, w.nwo) ELSE k.data, Buf(w))

PadReturnedOK == hist'.n = hist.n + 1 /\ hist'.last.op = "Pad" /\ hist'.last.st = OK

\* C31: a Pad(n) with 0 <= n < 4096 that returns OK appends exactly n padding bytes
\* after the bytes the writer held, without a sink call when they fit the free part
\* of the buffer, increases filesize by n and sets pending_sync; Pad(0) changes
\* nothing but pending_sync, which it sets.
C31_Pad ==
  [][PadReturnedOK =>
       /\ hist'.last.n < kDefaultPageSize
       /\ Written(fw', sink') = Cat(Written(fw, sink), NewPadding(hist'.last.n))
       /\ hist'.last.n <= fw.cap - fw.cur => sink' = sink /\ calls' = <<>>
       /\ fw'.filesize = fw.filesize + hist'.last.n
       /\ fw'.pending
       /\ hist'.last.n = 0 => fw' = [fw EXCEPT !.pending = TRUE] /\ sink' = sink]_vars

\* a Pad of more bytes than the buffer has free returned OK after an Append: the
\* buffer was flushed on the way
C31_Witness ==
  /\ hist.last.op = "Pad" /\ hist.last.st = OK
  /\ hist.last.n > hist.last.pre.cap - hist.last.pre.cur
  /\ hist.last.pre.filesize > 0
  /\ Len(calls) > 0

\* the same with direct I/O
C31_WitnessDirect == C31_Witness /\ cfg.direct

\* a Pad(0) returned OK on a writer whose pending_sync was false and whose buffer
\* held bytes
C31_WitnessZero ==
  /\ hist.last.op = "Pad" /\ hist.last.st = OK /\ hist.last.n = 0
  /\ ~hist.last.pre.pending /\ hist.last.pre.filesize > 0


\* the sink calls of the last handler that write data
DataCalls == {i \in 1..Len(calls) : calls[i].op \in {"Append", "PositionedAppend"}}

\* the requests to the rate limiter made before sink call i of the last handler
RequestsBefore(i) == IF i = 0 THEN 0 ELSE calls[i].nreq

\* what the rate limiter grants in all to k requests, the first being request j of
\* the handler, of a writer that asks for what is left
RECURSIVE Tokens(_, _, _)
Tokens(j, k, left) ==
  IF k = 0 THEN 0
  ELSE Tokens(j + 1, k - 1,
              left - (IF j <= Len(cfg.grants)
                      THEN Min(left, cfg.grants[j] * cfg.align) ELSE left))
       + (IF j <= Len(cfg.grants) THEN Min(left, cfg.grants[j] * cfg.align) ELSE left)

\* C32: with perform_data_verification and buffered_data_with_checksum, every sink
\* Append or PositionedAppend carries the whole buffer (or, for an Append past the
\* buffer, the whole data of the call) in one piece with the handoff checksum, and
\* with a rate limiter it is issued only after the requests made for it were granted
\* the full size in all, however the grants are split.
C32_OneSinkWrite ==
  Checksummed =>
    \A i \in DataCalls :
      /\ calls[i].op = (IF cfg.direct THEN "PositionedAppend" ELSE "Append")
      /\ calls[i].hascks
      /\ \/ calls[i].data = calls[i].buf
         \/ /\ ~cfg.direct /\ calls[i].buf = <<>> /\ hist.last.op = "Append"
            /\ calls[i].n = hist.last.n
      /\ cfg.rl =>
           /\ calls[i].nreq > RequestsBefore(i - 1)
           /\ Tokens(RequestsBefore(i - 1) + 1, calls[i].nreq - RequestsBefore(i - 1),
                     calls[i].n) = calls[i].n
      /\ ~cfg.rl => calls[i].nreq = 0

\* a buffer of more than one unit was written in one sink call after two requests
\* to the rate limiter, the first granted in part
C32_Witness ==
  /\ Checksummed /\ cfg.rl /\ ~cfg.direct
  /\ \E i \in DataCalls :
       /\ calls[i].ok /\ calls[i].data = calls[i].buf
       /\ calls[i].n > cfg.grants[1]
       /\ calls[i].nreq = 2

\* the same in WriteDirectWithChecksum
C32_WitnessDirect ==
  /\ Checksummed /\ cfg.rl /\ cfg.direct
  /\ \E i \in DataCalls :
       /\ calls[i].ok /\ calls[i].n > cfg.grants[1] * cfg.align
       /\ calls[i].nreq = 2


\* C33: between operations, as long as no sink call has failed, filesize is the
\* number of bytes handed to the sink plus the size of the buffer in buffered mode,
\* and next_write_offset plus the size of the buffer with direct I/O.
C33_Conservation ==
  (hist.nofail /\ ~fw.hung /\ task = Idle) =>
    fw.filesize = (IF cfg.direct THEN fw.nwo ELSE SLen(sink.data)) + fw.cur

\* after three operations without failure a buffered writer has handed bytes to the
\* sink and holds others in its buffer
C33_Witness ==
  /\ ~cfg.direct /\ hist.nofail /\ hist.n = MaxOps
  /\ SLen(sink.data) > 0 /\ fw.cur > 0

\* the same with direct I/O: whole pages were written and a tail stays in the buffer
C33_WitnessDirect ==
  /\ cfg.direct /\ hist.nofail /\ hist.n = MaxOps
  /\ fw.nwo > 0 /\ fw.cur > 0


\* C34: every call Pad(n) with 0 <= n < 4096 returns when every sink call returns,
\* in both modes and from every reachable state, with direct I/O and pending_sync
\* false included.
C34_PadReturns == hist.last.op = "Pad" => hist.last.st # "HANG" /\ ~fw.hung


\* C35: for a log writer created over an empty file writer, after any sequence of
\* AddRecord calls in which no call of the file writer failed, block_offset is
\* congruent to the file writer's filesize modulo the block size.
C35_BlockOffsetTracksFile ==
  (hist.allok /\ hist.ops \subseteq {"AddRecord"}) =>
    (lw.block_offset % kBlockSize) = (fw.filesize % kBlockSize)

\* records that span blocks and one that leaves less than a header in its block were
\* added: a trailer was written and the file is longer than a block
C35_Witness ==
  /\ hist.allok /\ hist.ops = {"AddRecord"} /\ hist.n = MaxOps
  /\ fw.filesize > 2 * kBlockSize
  /\ lw.block_offset > 0
  /\ \E i \in 1..Len(recs) : recs[i].n = kBlockSize - HeaderSize - 3

\* the last record ended exactly at the end of its block
C35_WitnessBoundary ==
  /\ hist.allok /\ hist.ops = {"AddRecord"} /\ hist.n >= 2
  /\ lw.block_offset = kBlockSize /\ fw.filesize > kBlockSize


\* an AddRecord has just returned after one of its Append calls on the file writer
\* failed
AddRecordFailed ==
  /\ hist'.n = hist.n + 1 /\ hist'.last.op = "AddRecord"
  /\ \E i \in 1..Len(lw'.fwcalls) : lw'.fwcalls[i].op = "Append" /\ lw'.fwcalls[i].st # OK

\* the bytes of the Append calls of the handler that returned OK
RECURSIVE AppendedOk(_)
AppendedOk(cs) ==
  IF cs = <<>> THEN 0
  ELSE (IF Head(cs).op = "Append" /\ Head(cs).st = OK THEN SLen(Head(cs).data) ELSE 0)
       + AppendedOk(Tail(cs))

\* block_offset_ before the fragment that failed: that of the call for the first
\* fragment, 0 after a block switch and for the later fragments
OffsetBefore(nfrags) ==
  IF nfrags > 1 \/ kBlockSize - lw.block_offset < HeaderSize THEN 0 ELSE lw.block_offset

\* C36: when an Append of the file writer fails, AddRecord emits no further fragment,
\* does not call Flush and returns that status; when the failed Append is the
\* trailer, block_offset is unchanged; when it is the header or the payload of a
\* fragment, block_offset is advanced by header_size + fragment_length although the
\* file writer did not take those bytes.
C36_AddRecordOnFailure ==
  [][AddRecordFailed =>
       /\ lw'.fwcalls[Len(lw'.fwcalls)].op = "Append"
       /\ lw'.fwcalls[Len(lw'.fwcalls)].st = hist'.last.st
       /\ hist'.last.st # OK
       /\ \A i \in 1..(Len(lw'.fwcalls) - 1) : lw'.fwcalls[i].st = OK
       /\ \A i \in 1..(Len(lw'.frags) - 1) : lw'.frags[i].st = OK
       /\ fw'.filesize = fw.filesize + AppendedOk(lw'.fwcalls)
       /\ IF lw'.frags = <<>>
          THEN /\ lw'.block_offset = lw.block_offset
               /\ Len(lw'.fwcalls) = 1
          ELSE /\ lw'.frags[Len(lw'.frags)].st # OK
               /\ lw'.block_offset =
                    OffsetBefore(Len(lw'.frags)) + HeaderSize
                      + SLen(lw'.frags[Len(lw'.frags)].payload)
               /\ fw'.filesize - fw.filesize
                    < AppendedOk(lw'.fwcalls) + HeaderSize
                        + SLen(lw'.frags[Len(lw'.frags)].payload)]_vars

LastAddRecordFailed ==
  /\ hist.last.op = "AddRecord" /\ hist.last.st # OK
  /\ lw.fwcalls # <<>> /\ lw.fwcalls[Len(lw.fwcalls)].op = "Append"

\* the Append of the payload of the second fragment of a record failed
C36_Witness ==
  /\ LastAddRecordFailed
  /\ Len(lw.frags) = 2 /\ Len(lw.fwcalls) >= 4

\* the Append of a header failed
C36_WitnessHeader ==
  /\ LastAddRecordFailed
  /\ lw.frags # <<>>
  /\ SLen(lw.fwcalls[Len(lw.fwcalls)].data) = HeaderSize /\ hist.last.n # HeaderSize

\* the Append of the trailer failed
C36_WitnessTrailer == LastAddRecordFailed /\ lw.frags = <<>>

=============================================================================
